---- MODULE Spec2Model ----
(***************************************************************************)
(* A model of the FleetCron agent (src/agent.py): a fleet of agents that   *)
(* share one document store (machines, jobs, job_runs) and, per scheduled  *)
(* minute, heartbeat, order themselves, claim each due job and run it.     *)
(*                                                                         *)
(* Spec      the fleet: every agent runs process_minute, one store call    *)
(*           (or sleep) per step, interleaved with the other agents.       *)
(* StepSpec  one call of the HTTP step runner,                             *)
(*           run_http_with_retry_with_progress, one request per step.      *)
(* ChainSpec one call of execute_actions on a job's actions list, one      *)
(*           action of the list per step.                                  *)
(* IndexSpec one JobsCache: reload from the store's jobs, then list_for    *)
(*           and get_next_schedule for a query time.                       *)
(* TemplateSpec  resolve_templates on one value and one secrets map,       *)
(*           applied once and then to its own result.                      *)
(* WatcherSpec  commands_watcher: commands arrive in the store, the watcher *)
(*           polls, moves its watermark and dispatches them.               *)
(* LoopSpec  the main loop of one agent, call by call, with store calls    *)
(*           that may raise and a signal that may arrive at any point.     *)
(* MergeSpec the timeout and retry settings a step runs with, from the     *)
(*           global defaults, the job document and the step.               *)
(* ThreadsSpec  the watcher thread beside the main thread: configuration   *)
(*           refresh and index reload against the main thread's reads.     *)
(* WhenSpec  execute_actions on short chains over every "when" mapping and *)
(*           several local times.                                          *)
(* ClockSpec the main loop of one agent against the wall clock: its        *)
(*           sleeps, its reloads and the minutes it calls process_minute   *)
(*           for.                                                          *)
(* RecordSpec  ensure_machine_record, called repeatedly on one document of *)
(*           db.machines.                                                  *)
(***************************************************************************)
EXTENDS Integers, Sequences, FiniteSets, TLC

\* ---------------------------------------------------------------- bounds
MaxFaults == 1        \* environment events in one behaviour: an agent process
                      \* killed, a machine document deleted, a job disabled,
                      \* a store call that fails
MaxRetries == 2       \* the largest "retries" of a step
MaxActions == 3       \* the longest "actions" list of a job
MaxCommands == 3      \* the documents db.commands comes to hold, and their
                      \* distinct created_at values

\* ------------------------------------------------------ program constants
DEFAULT_ORDER_VALUE == 9999
MAX_ACTIVE_MACHINES == 2     \* config "max_order" (default 10), set to 2 here
OFFSET_STEP_SEC     == 5
HoursPerDay         == 24
TzOffsetMinutes     == 540   \* config "tz" default Asia/Seoul = UTC+9

None == 0 - 1                \* Python None / a missing field

MachineIds == {1, 2, 3}      \* machine_id values, compared as the code compares strings
Agents     == {1, 2}         \* the machines whose agent process runs; machine 3 is down
JobIds     == {1, 2}
\* tick_minute_local values an agent is woken for, as minutes of the local day
TickMinutes == {600}         \* 10:00

HourOf(t)   == (t \div 60) % HoursPerDay
MinuteOf(t) == t % 60

to_utc_minute(dt_local_minute) == dt_local_minute - TzOffsetMinutes

\* ------------------------------------------------------------- sequences
Range(s) == {s[i] : i \in DOMAIN s}

\* --------------------------------------------------------------- machines
\* A document of db.machines; present = FALSE stands for "no such document".
NoMachine == [present |-> FALSE, order |-> None, last_online_minute |-> None]

extract_order_value(document) ==
    IF ~document.present THEN DEFAULT_ORDER_VALUE
    ELSE IF document.order # None THEN document.order
    ELSE DEFAULT_ORDER_VALUE

\* the sort key (extract_order_value(m), machine_id)
SortsBefore(x, y) ==
    \/ x.order < y.order
    \/ x.order = y.order /\ x.machine_id < y.machine_id

get_all_machines_sorted(coll) ==
    LET docs == {[machine_id |-> i,
                  order |-> extract_order_value(coll[i]),
                  last_online_minute |-> coll[i].last_online_minute] :
                 i \in {k \in MachineIds : coll[k].present}}
        n == Cardinality(docs)
    IN CHOOSE s \in [1..n -> docs] :
          /\ \A i, j \in 1..n : i # j => s[i] # s[j]
          /\ \A i, j \in 1..n : i < j => SortsBefore(s[i], s[j])

PositionOf(machines_sorted, machine_id) ==
    IF \E i \in DOMAIN machines_sorted : machines_sorted[i].machine_id = machine_id
    THEN CHOOSE i \in DOMAIN machines_sorted : machines_sorted[i].machine_id = machine_id
    ELSE 0

\* mutant: any recorded heartbeat, of whatever minute, counts as online
CheckEarlier_AnyMinute(machines_sorted, position, scheduled_minute_utc) ==
    IF position <= 1 THEN FALSE
    ELSE \E idx \in DOMAIN machines_sorted :
            /\ idx < position
            /\ machines_sorted[idx].last_online_minute # None

\* mutant: the loop stops one machine early and misses the direct predecessor
CheckEarlier_SkipsNeighbour(machines_sorted, position, scheduled_minute_utc) ==
    IF position <= 1 THEN FALSE
    ELSE \E idx \in DOMAIN machines_sorted :
            /\ idx < position - 1
            /\ machines_sorted[idx].last_online_minute = scheduled_minute_utc

check_earlier_machines_online(machines_sorted, position, scheduled_minute_utc) ==
    IF position <= 1 THEN FALSE
    ELSE \E idx \in DOMAIN machines_sorted :
            /\ idx < position
            /\ machines_sorted[idx].last_online_minute = scheduled_minute_utc

\* ------------------------------------------------------------------- jobs
\* mutant: range(23), the last hour of the day is left out
AddToKeys_LastHourMissing(hour, minute) ==
    IF hour = None THEN [h \in 1..(HoursPerDay - 1) |-> <<h - 1, minute>>]
    ELSE <<  <<hour, minute>>  >>

\* JobsCache._add_to: the (hour, minute) keys one schedule entry is filed under
AddToKeys(hour, minute) ==
    IF hour = None THEN [h \in 1..HoursPerDay |-> <<h - 1, minute>>]
    ELSE <<  <<hour, minute>>  >>

\* sch.get("minute", 0): an absent minute counts as 0
MinuteOrDefault(minute) == IF minute = None THEN 0 ELSE minute

\* the schedule entries JobsCache.reload walks for one job document
ScheduleEntries(j) ==
    IF j.schedules # <<>>
    THEN [n \in 1..Len(j.schedules) |->
            [hour |-> j.schedules[n].hour, minute |-> MinuteOrDefault(j.schedules[n].minute)]]
    ELSE << [hour |-> j.hour, minute |-> MinuteOrDefault(j.minute)] >>

RECURSIVE EntryKeys(_)
EntryKeys(entries) ==
    IF entries = <<>> THEN <<>>
    ELSE AddToKeys(Head(entries).hour, Head(entries).minute) \o EntryKeys(Tail(entries))

\* the list of <<key, job_id>> appends JobsCache.reload performs, in order
RECURSIVE ReloadAppends(_, _)
ReloadAppends(coll, ids) ==
    IF ids = {} THEN <<>>
    ELSE LET i == CHOOSE x \in ids : \A y \in ids : x <= y
             keys == IF coll[i].enabled THEN EntryKeys(ScheduleEntries(coll[i])) ELSE <<>>
         IN [n \in 1..Len(keys) |-> [key |-> keys[n], job |-> i]]
            \o ReloadAppends(coll, ids \ {i})

RECURSIVE JobsOf(_, _)
JobsOf(appends, key) ==
    IF appends = <<>> THEN <<>>
    ELSE (IF Head(appends).key = key THEN <<Head(appends).job>> ELSE <<>>)
         \o JobsOf(Tail(appends), key)

JobsCache_reload(coll) ==
    LET appends == ReloadAppends(coll, JobIds)
    IN [k \in {a.key : a \in Range(appends)} |-> JobsOf(appends, k)]

\* mutant: the bucket is looked up under (minute, hour)
ListFor_SwappedKey(mp, hour, minute) ==
    IF <<minute, hour>> \in DOMAIN mp THEN mp[<<minute, hour>>] ELSE <<>>

\* JobsCache.list_for
list_for(mp, hour, minute) ==
    IF <<hour, minute>> \in DOMAIN mp THEN mp[<<hour, minute>>] ELSE <<>>

\* ------------------------------------------------------------------ state
VARIABLES
    machines,      \* db.machines : machine_id -> document
    jobs,          \* db.jobs     : job _id -> document
    job_runs,      \* db.job_runs : the documents, in insertion order
    agent,         \* per agent: where process_minute stands and its locals
    jobs_cache,    \* per agent: the job documents its last JobsCache.reload read,
                   \*            which determine JobsCache._map
    started,       \* history: per (job, minute), the machines that started its chain
    abandoned,     \* history: <<machine, minute>> ticks given up over the active limit
    faults,        \* history: the environment events so far, <<kind, subject>>
    http,          \* one call of run_http_with_retry_with_progress: its step,
                   \* its locals and, as history, the responses of each attempt
    chain,         \* one call of execute_actions: the job's actions and its locals
    index,         \* one JobsCache and a query put to it
    tmpl,          \* one value, the secrets map and what resolve_templates returned
    watcher,       \* the commands_watcher thread: db.commands, its watermark,
                   \* its cursor and, as history, the commands it dispatched
    loop,          \* the main loop of one agent with a store that may fail
    merged,        \* a job, a step and http_defaults, and the settings a step runs with
    threads,       \* the watcher thread and the main thread on the shared
                   \* order settings and the shared JobsCache
    clock,         \* the main loop of one agent against the wall clock: its
                   \* sleeps, its reloads and, as history, the minutes it ticked for
    record         \* one document of db.machines with its order fields, and the
                   \* calls of ensure_machine_record made for it

\* the variables of the fleet, and all variables
fleet == <<machines, jobs, job_runs, agent, jobs_cache, started, abandoned, faults>>
\* the variables of the specifications added later
rest == <<watcher, loop, merged, threads, clock, record>>
vars == <<machines, jobs, job_runs, agent, jobs_cache, started, abandoned, faults, http, chain, index, tmpl,
          watcher, loop, merged, threads, clock, record>>

RunKeys == JobIds \X {to_utc_minute(t) : t \in TickMinutes}

IdleAgent ==
    [pc |-> "idle", tick |-> 0, check_marker |-> 0, machines |-> <<>>,
     my_position |-> 0, my_order_value |-> None, branch |-> "none",
     jobs |-> <<>>, job_i |-> 0, status |-> "none", attempted |-> {}]

\* no call of the step runner is under way
NoCall ==
    [pc |-> "none", step |-> <<>>, USE_CLOUDSCRAPER |-> FALSE, attempts |-> 0,
     delay |-> 0, slept |-> <<>>, responses |-> <<>>, resp |-> None,
     last_info |-> <<>>, st |-> "none", info |-> <<>>]

\* the job documents the store may hold: flat hour/minute jobs and schedules lists
FlatJob(hour, minute) ==
    [enabled |-> TRUE, schedules |-> <<>>, hour |-> hour, minute |-> minute]
SchedulesJob(schedules) ==
    [enabled |-> TRUE, schedules |-> schedules, hour |-> None, minute |-> None]

JobDocChoices ==
    { FlatJob(10, 0),
      FlatJob(None, None),
      SchedulesJob(<< [hour |-> 10, minute |-> 0], [hour |-> None, minute |-> None] >>) }

\* the order values of the fleet: every machine still has the default of
\* ensure_machine_record, or an operator has put machine 3, which is down, first
OrderChoices ==
    { [i \in MachineIds |-> DEFAULT_ORDER_VALUE],
      [i \in MachineIds |-> IF i = 3 THEN 1 ELSE DEFAULT_ORDER_VALUE] }

\* what last_online_minute holds before the tick: nothing, or the previous
\* scheduled minute (09:00), which every machine heartbeated
LastOnlineChoices == {None, to_utc_minute(540)}

Init ==
    /\ \E o \in OrderChoices, l \in LastOnlineChoices :
          machines = [i \in MachineIds |->
                        [present |-> TRUE, order |-> o[i], last_online_minute |-> l]]
    /\ \E d \in JobDocChoices :
          jobs = [j \in JobIds |-> IF j = 1 THEN d ELSE FlatJob(None, 0)]
    /\ job_runs = <<>>
    /\ agent = [i \in Agents |-> IdleAgent]
    /\ jobs_cache = [i \in Agents |-> jobs]
    /\ started = [k \in RunKeys |-> <<>>]
    /\ abandoned = {}
    /\ faults = {}
    /\ http = NoCall
    /\ chain = <<>> /\ index = <<>> /\ tmpl = <<>>
    /\ watcher = <<>> /\ loop = <<>> /\ merged = <<>> /\ threads = <<>> /\ clock = <<>>
    /\ record = <<>>

Sched(m) == to_utc_minute(agent[m].tick)

\* JobsCache._map of an agent
JobsCacheMap(m) == JobsCache_reload(jobs_cache[m])

\* ------------------------------------------------------------ agent_main
update_heartbeat(coll, machine_id, scheduled_minute_utc) ==
    IF coll[machine_id].present
    THEN [coll EXCEPT ![machine_id].last_online_minute = scheduled_minute_utc]
    ELSE coll

\* The main loop wakes at a scheduled minute later than its previous tick and
\* calls process_minute(..., 0), which writes the heartbeat and reloads the index.
StartTick(m) ==
    /\ agent[m].pc = "idle"
    /\ \E t \in TickMinutes :
          /\ t > agent[m].tick
          /\ agent' = [agent EXCEPT ![m] = [IdleAgent EXCEPT !.pc = "context", !.tick = t]]
          /\ machines' = update_heartbeat(machines, m, to_utc_minute(t))
    /\ jobs_cache' = [jobs_cache EXCEPT ![m] = jobs]
    /\ UNCHANGED <<jobs, job_runs, started, abandoned, faults, http, chain, index, tmpl, rest>>

\* process_minute has returned; the main loop reports and starts over
Return(m) ==
    /\ agent[m].pc = "returned"
    /\ agent' = [agent EXCEPT ![m] = [IdleAgent EXCEPT !.tick = agent[m].tick]]
    /\ UNCHANGED <<machines, jobs, job_runs, jobs_cache, started, abandoned, faults, http, chain, index, tmpl, rest>>

\* ------------------------------------------------- process_minute, Phase A
\* a process_minute that never gives a minute up over the limit
OverLimit_Never(max_active, position) == FALSE

\* "if MAX_ACTIVE_MACHINES > 0 and my_position > MAX_ACTIVE_MACHINES", the test
\* of Phase A and of Phase B
OverLimit(max_active, position) == max_active > 0 /\ position > max_active

\* what process_minute does between get_order_context and its next store call
AfterOrderContext(a, mp, machines_sorted, position, order_value) ==
    LET b == [a EXCEPT !.machines = machines_sorted, !.my_position = position,
                       !.my_order_value = order_value]
        sched == to_utc_minute(a.tick)
        wait_seconds == IF (position - 1) * OFFSET_STEP_SEC > 0
                        THEN (position - 1) * OFFSET_STEP_SEC ELSE 0
        bucket == list_for(mp, HourOf(a.tick), MinuteOf(a.tick))
        phaseC == IF bucket = <<>>
                  THEN [b EXCEPT !.pc = "returned", !.branch = "no_jobs"]
                  ELSE [b EXCEPT !.pc = "find_job", !.branch = "execute",
                                 !.jobs = bucket, !.job_i = 1]
    IN IF OverLimit(MAX_ACTIVE_MACHINES, position)
       THEN [b EXCEPT !.pc = "returned", !.branch = "over_limit"]
       ELSE IF a.check_marker = 0
       THEN IF wait_seconds > 0
            THEN [b EXCEPT !.pc = "wait", !.branch = "deferred"]
            ELSE phaseC
       ELSE IF check_earlier_machines_online(machines_sorted, position, sched)
            THEN [b EXCEPT !.pc = "returned", !.branch = "stand_down"]
            ELSE phaseC

\* get_order_context, first lookup
GetOrderContext(m) ==
    /\ agent[m].pc = "context"
    /\ LET ms == get_all_machines_sorted(machines)
           idx == PositionOf(ms, m)
       IN agent' = [agent EXCEPT ![m] =
                      IF idx # 0
                      THEN AfterOrderContext(@, JobsCacheMap(m), ms, idx, ms[idx].order)
                      ELSE [@ EXCEPT !.pc = "ensure"]]
    /\ abandoned' = IF agent'[m].branch = "over_limit"
                    THEN abandoned \cup {<<m, Sched(m)>>} ELSE abandoned
    /\ UNCHANGED <<machines, jobs, job_runs, jobs_cache, started, faults, http, chain, index, tmpl, rest>>

ensure_machine_record(coll, machine_id) ==
    IF coll[machine_id].present THEN coll
    ELSE [coll EXCEPT ![machine_id] =
            [present |-> TRUE, order |-> DEFAULT_ORDER_VALUE, last_online_minute |-> None]]

\* get_order_context when the agent's own document is missing
EnsureMachineRecord(m) ==
    /\ agent[m].pc = "ensure"
    /\ machines' = ensure_machine_record(machines, m)
    /\ agent' = [agent EXCEPT ![m].pc = "context_retry"]
    /\ UNCHANGED <<jobs, job_runs, jobs_cache, started, abandoned, faults, http, chain, index, tmpl, rest>>

GetOrderContextRetry(m) ==
    /\ agent[m].pc = "context_retry"
    /\ LET ms == get_all_machines_sorted(machines)
           idx == PositionOf(ms, m)
       IN agent' = [agent EXCEPT ![m] =
                      IF idx # 0
                      THEN AfterOrderContext(@, JobsCacheMap(m), ms, idx, ms[idx].order)
                      ELSE AfterOrderContext(@, JobsCacheMap(m), ms, Len(ms) + 1,
                                             DEFAULT_ORDER_VALUE)]
    /\ abandoned' = IF agent'[m].branch = "over_limit"
                    THEN abandoned \cup {<<m, Sched(m)>>} ELSE abandoned
    /\ UNCHANGED <<machines, jobs, job_runs, jobs_cache, started, faults, http, chain, index, tmpl, rest>>

\* agent_main sleeps out the deferred marker and calls process_minute again
Recheck(m) ==
    /\ agent[m].pc = "wait"
    /\ agent' = [agent EXCEPT ![m] =
                   [IdleAgent EXCEPT !.pc = "context", !.tick = agent[m].tick,
                                     !.check_marker = 1]]
    /\ UNCHANGED <<machines, jobs, job_runs, jobs_cache, started, abandoned, faults, http, chain, index, tmpl, rest>>

\* ------------------------------------------------- process_minute, Phase C
\* a for-loop that a skipped job ends: process_minute returns
NextJob_Returns(a) == [a EXCEPT !.pc = "returned"]

\* the for-loop over jobs moves on to the next job, or process_minute returns
NextJob(a) ==
    IF a.job_i < Len(a.jobs)
    THEN [a EXCEPT !.pc = "find_job", !.job_i = a.job_i + 1]
    ELSE [a EXCEPT !.pc = "returned"]

CurrentJob(m) == agent[m].jobs[agent[m].job_i]

\* a find_one without the "enabled" filter
FindJobDoc_AnyJob(m) ==
    /\ agent[m].pc = "find_job"
    /\ agent' = [agent EXCEPT ![m].pc = "claim"]
    /\ UNCHANGED <<machines, jobs, job_runs, jobs_cache, started, abandoned, faults, http, chain, index, tmpl, rest>>

\* db.jobs.find_one({"_id": job["_id"], "enabled": True})
FindJobDoc(m) ==
    /\ agent[m].pc = "find_job"
    /\ agent' = [agent EXCEPT ![m] =
                   IF jobs[CurrentJob(m)].enabled THEN [@ EXCEPT !.pc = "claim"]
                   ELSE NextJob(@)]
    /\ UNCHANGED <<machines, jobs, job_runs, jobs_cache, started, abandoned, faults, http, chain, index, tmpl, rest>>

\* mutant: the filter does not look at claimed_by
ClaimFilter_AnyOwner(doc, job_id, scheduled_minute_utc, machine_id) ==
    /\ doc.job_id = job_id
    /\ doc.scheduled_for = scheduled_minute_utc

\* the filter of claim_job_run's find_one_and_update
ClaimFilter(doc, job_id, scheduled_minute_utc, machine_id) ==
    /\ doc.job_id = job_id
    /\ doc.scheduled_for = scheduled_minute_utc
    /\ doc.claimed_by \in {None, machine_id}

\* the $set of claim_job_run
ClaimSet(doc, machine_id, order_value, order_position) ==
    [doc EXCEPT !.claimed_by = machine_id,
                !.executed_order_value = order_value,
                !.executed_order_position = order_position,
                !.status = "running",
                !.steps = <<>>]

\* the document an upsert inserts: $setOnInsert, then $set
ClaimInsertDoc(job_id, scheduled_minute_utc, machine_id, order_value, order_position) ==
    ClaimSet([job_id |-> job_id, scheduled_for |-> scheduled_minute_utc,
              claimed_by |-> None, executed_order_value |-> None,
              executed_order_position |-> None, status |-> "none", steps |-> <<>>,
              end_at |-> FALSE],
             machine_id, order_value, order_position)

\* mutant: job_runs has no unique index
UniqueIndex_Missing(runs, doc) == TRUE

\* the unique index on (job_id, scheduled_for) of get_db
UniqueIndexAllows(runs, doc) ==
    ~ \E i \in DOMAIN runs :
         runs[i].job_id = doc.job_id /\ runs[i].scheduled_for = doc.scheduled_for

\* claim_job_run returned True: print_job_start, the run starts
ClaimWon(a) == [a EXCEPT !.pc = "run_step", !.attempted = @ \cup {a.jobs[a.job_i]}]
\* claim_job_run returned False: "Already claimed", continue
ClaimLost(a) == NextJob([a EXCEPT !.attempted = @ \cup {a.jobs[a.job_i]}])

\* claim_job_run: the store looks for a document the filter matches and updates it
ClaimFindAndUpdate(m) ==
    /\ agent[m].pc = "claim"
    /\ LET j == CurrentJob(m)
           hit == {i \in DOMAIN job_runs : ClaimFilter(job_runs[i], j, Sched(m), m)}
       IN IF hit # {}
          THEN LET i == CHOOSE x \in hit : \A y \in hit : x <= y
               IN /\ job_runs' = [job_runs EXCEPT ![i] =
                                    ClaimSet(@, m, agent[m].my_order_value, agent[m].my_position)]
                  /\ agent' = [agent EXCEPT ![m] = ClaimWon(@)]
                  /\ started' = [started EXCEPT ![<<j, Sched(m)>>] = Append(@, m)]
          ELSE /\ agent' = [agent EXCEPT ![m].pc = "claim_insert"]
               /\ UNCHANGED <<job_runs, started>>
    /\ UNCHANGED <<machines, jobs, jobs_cache, abandoned, faults, http, chain, index, tmpl, rest>>

\* claim_job_run: no document matched, the upsert inserts one, or the unique
\* index rejects it (DuplicateKeyError, return False)
ClaimUpsertInsert(m) ==
    /\ agent[m].pc = "claim_insert"
    /\ LET j == CurrentJob(m)
           doc == ClaimInsertDoc(j, Sched(m), m, agent[m].my_order_value, agent[m].my_position)
       IN IF UniqueIndexAllows(job_runs, doc)
          THEN /\ job_runs' = Append(job_runs, doc)
               /\ agent' = [agent EXCEPT ![m] = ClaimWon(@)]
               /\ started' = [started EXCEPT ![<<j, Sched(m)>>] = Append(@, m)]
          ELSE /\ agent' = [agent EXCEPT ![m] = ClaimLost(@)]
               /\ UNCHANGED <<job_runs, started>>
    /\ UNCHANGED <<machines, jobs, jobs_cache, abandoned, faults, http, chain, index, tmpl, rest>>

\* claim_job_run: the store call fails (PyMongoError), return False
ClaimStoreError(m) ==
    /\ agent[m].pc = "claim"
    /\ Cardinality(faults) < MaxFaults
    /\ agent' = [agent EXCEPT ![m] = ClaimLost(@)]
    /\ faults' = faults \cup {<<"store_error", m>>}
    /\ UNCHANGED <<machines, jobs, job_runs, jobs_cache, started, abandoned, http, chain, index, tmpl, rest>>

\* update_one(run_key, ...): the first document with the run's key
RunDocIndex(runs, job_id, scheduled_minute_utc) ==
    LET hit == {i \in DOMAIN runs : runs[i].job_id = job_id
                                    /\ runs[i].scheduled_for = scheduled_minute_utc}
    IN IF hit = {} THEN 0 ELSE CHOOSE x \in hit : \A y \in hit : x <= y

\* the single HTTP step of a flat job and the $push of its log entry
RunHttpStep(m) ==
    /\ agent[m].pc = "run_step"
    /\ \E st \in {"ok", "error"} :
          LET i == RunDocIndex(job_runs, CurrentJob(m), Sched(m))
          IN /\ job_runs' = IF i = 0 THEN job_runs
                            ELSE [job_runs EXCEPT ![i].steps = Append(@, st)]
             /\ agent' = [agent EXCEPT ![m].pc = "finalize", ![m].status = st]
    /\ UNCHANGED <<machines, jobs, jobs_cache, started, abandoned, faults, http, chain, index, tmpl, rest>>

\* update_one(run_key, {"$set": {start_at, end_at, status}})
FinalizeRun(m) ==
    /\ agent[m].pc = "finalize"
    /\ LET i == RunDocIndex(job_runs, CurrentJob(m), Sched(m))
       IN job_runs' = IF i = 0 THEN job_runs
                      ELSE [job_runs EXCEPT ![i].status = agent[m].status,
                                            ![i].end_at = TRUE]
    /\ agent' = [agent EXCEPT ![m] = NextJob(@)]
    /\ UNCHANGED <<machines, jobs, jobs_cache, started, abandoned, faults, http, chain, index, tmpl, rest>>

\* ------------------------------------------------------------ environment
\* the agent process is killed in the middle of a tick (handle_sig: sys.exit)
Crash(m) ==
    /\ agent[m].pc \notin {"idle", "returned", "crashed"}
    /\ Cardinality(faults) < MaxFaults
    /\ agent' = [agent EXCEPT ![m].pc = "crashed"]
    /\ faults' = faults \cup {<<"crash", m>>}
    /\ UNCHANGED <<machines, jobs, job_runs, jobs_cache, started, abandoned, http, chain, index, tmpl, rest>>

\* an operator deletes a machine document (the case get_order_context
\* repairs); the document of a running agent is deleted between its ticks
RemoveMachine(m) ==
    /\ machines[m].present
    /\ m \in Agents => agent[m].pc = "idle"
    /\ Cardinality(faults) < MaxFaults
    /\ machines' = [machines EXCEPT ![m] = NoMachine]
    /\ faults' = faults \cup {<<"remove", m>>}
    /\ UNCHANGED <<jobs, job_runs, agent, jobs_cache, started, abandoned, http, chain, index, tmpl, rest>>

\* an operator disables a job (the case process_minute reports "Disabled/deleted")
DisableJob(j) ==
    /\ jobs[j].enabled
    /\ Cardinality(faults) < MaxFaults
    /\ jobs' = [jobs EXCEPT ![j].enabled = FALSE]
    /\ faults' = faults \cup {<<"disable", j>>}
    /\ UNCHANGED <<machines, job_runs, agent, jobs_cache, started, abandoned, http, chain, index, tmpl, rest>>

\* ---------------------------------------------------------- specification
AgentStep(m) ==
    \/ GetOrderContext(m)
    \/ EnsureMachineRecord(m)
    \/ GetOrderContextRetry(m)
    \/ Recheck(m)
    \/ FindJobDoc(m)
    \/ ClaimFindAndUpdate(m)
    \/ ClaimUpsertInsert(m)
    \/ ClaimStoreError(m)
    \/ RunHttpStep(m)
    \/ FinalizeRun(m)
    \/ Return(m)

Next ==
    \/ \E m \in Agents : StartTick(m)
    \/ \E m \in Agents : AgentStep(m)
    \/ \E m \in Agents : Crash(m)
    \/ \E m \in MachineIds : RemoveMachine(m)
    \/ \E j \in JobIds : DisableJob(j)

Spec == Init /\ [][Next]_vars

\* ------------------------------------- run_http_with_retry_with_progress
\* An HTTP request is answered with a status code, or with nothing at all
\* (connection refused, timeout): NoStatus.
NoStatus == 0
StatusCodes == {200, 404, 503}
Outcomes == StatusCodes \cup {NoStatus}
Raised == 0 - 2              \* the attempt ended in an exception

\* the steps a job may hold, with the retry settings already merged
Steps ==
    [use_curl : BOOLEAN, use_cloudscraper : BOOLEAN, method : {"GET", "POST"},
     retries : 0..MaxRetries, delay_sec : {0, 1}, backoff : {1, 2}]

\* the branch the try block takes
Transport(step, have_cloudscraper) ==
    IF step.use_curl /\ step.method = "GET" THEN "curl"
    ELSE IF have_cloudscraper /\ step.use_cloudscraper THEN "cloudscraper"
    ELSE "standard"

\* curl --retry N --retry-all-errors retries a transfer that failed and a
\* response with a transient status (408, 429, 500, 502, 503, 504)
CurlRetriesOn(outcome) == outcome = NoStatus \/ outcome \in {408, 429, 500, 502, 503, 504}

\* re.search(r'< HTTP/[\d\.]+ (\d+)', output): the status of the first
\* response in curl's output, 0 if there is none
FirstStatus(output) ==
    LET hit == {i \in DOMAIN output : output[i] # NoStatus}
    IN IF hit = {} THEN NoStatus
       ELSE output[CHOOSE i \in hit : \A k \in hit : i <= k]

\* one call of the step runner, looked at on its own: the store is empty and
\* no agent is running
StepInit ==
    /\ machines = <<>> /\ jobs = <<>> /\ job_runs = <<>>
    /\ agent = <<>> /\ jobs_cache = <<>> /\ started = <<>>
    /\ abandoned = {} /\ faults = {}
    /\ chain = <<>> /\ index = <<>> /\ tmpl = <<>>
    /\ watcher = <<>> /\ loop = <<>> /\ merged = <<>> /\ threads = <<>> /\ clock = <<>>
    /\ record = <<>>
    /\ \E step \in Steps, have_cloudscraper \in BOOLEAN :
          http = [NoCall EXCEPT !.pc = "loop", !.step = step,
                                !.USE_CLOUDSCRAPER = have_cloudscraper,
                                !.delay = step.delay_sec]

\* while True: attempts += 1, and the try block picks its transport
BeginAttempt ==
    /\ http.pc = "loop"
    /\ http' = [http EXCEPT !.attempts = @ + 1,
                            !.responses = Append(@, <<>>),
                            !.pc = IF Transport(http.step, http.USE_CLOUDSCRAPER) = "curl"
                                   THEN "curl" ELSE "request"]
    /\ UNCHANGED <<fleet, chain, index, tmpl, rest>>

\* scraper.request / HTTP_SESSION.request: one request; no answer is an exception
SessionRequest ==
    /\ http.pc = "request"
    /\ \E outcome \in Outcomes :
          http' = [http EXCEPT !.responses[http.attempts] = Append(@, outcome),
                               !.resp = IF outcome = NoStatus THEN Raised ELSE outcome,
                               !.pc = "evaluate"]
    /\ UNCHANGED <<fleet, chain, index, tmpl, rest>>

\* execute_curl_request: the curl process sends a request; it sends another
\* while the outcome is one it retries on and it has retries left, else it
\* exits and its output is searched for a status
CurlRequest ==
    /\ http.pc = "curl"
    /\ \E outcome \in Outcomes :
          LET output == Append(http.responses[http.attempts], outcome)
          IN http' = [http EXCEPT
                        !.responses[http.attempts] = output,
                        !.resp = FirstStatus(output),
                        !.pc = IF CurlRetriesOn(outcome) /\ Len(output) <= http.step.retries
                               THEN "curl" ELSE "evaluate"]
    /\ UNCHANGED <<fleet, chain, index, tmpl, rest>>

\* execute_curl_request raises: no curl binary, or subprocess.run times out
CurlRaises ==
    /\ http.pc = "curl"
    /\ http' = [http EXCEPT !.resp = Raised, !.pc = "evaluate"]
    /\ UNCHANGED <<fleet, chain, index, tmpl, rest>>

\* mutant: the delay is never scaled
NextDelay_NoBackoff(delay, backoff) == delay

\* delay = delay * backoff if backoff > 1 else delay
NextDelay(delay, backoff) == IF backoff > 1 THEN delay * backoff ELSE delay

\* if delay > 0: int(delay) sleeps of one second and one of the fraction
SleepOf(delay) == IF delay > 0 THEN delay ELSE 0

\* the rest of the loop body: return "ok", return "error", or sleep and go on
EvaluateAttempt ==
    /\ http.pc = "evaluate"
    /\ LET status_code == http.resp
           failed == IF status_code = Raised
                     THEN [error |-> Raised, status_code |-> None, attempts |-> None]
                     ELSE [error |-> status_code, status_code |-> status_code,
                           attempts |-> None]
       IN IF status_code # Raised /\ 200 <= status_code /\ status_code < 300
          THEN http' = [http EXCEPT !.pc = "done", !.st = "ok",
                          !.info = [error |-> None, status_code |-> status_code,
                                    attempts |-> http.attempts]]
          ELSE IF http.attempts > http.step.retries
          THEN http' = [http EXCEPT !.pc = "done", !.st = "error",
                          !.last_info = [failed EXCEPT !.attempts = http.attempts],
                          !.info = [failed EXCEPT !.attempts = http.attempts]]
          ELSE http' = [http EXCEPT !.pc = "loop", !.last_info = failed,
                          !.slept = Append(@, SleepOf(http.delay)),
                          !.delay = NextDelay(http.delay, http.step.backoff)]
    /\ UNCHANGED <<fleet, chain, index, tmpl, rest>>

StepNext ==
    \/ BeginAttempt
    \/ SessionRequest
    \/ CurlRequest
    \/ CurlRaises
    \/ EvaluateAttempt

StepSpec == StepInit /\ [][StepNext]_vars

\* ------------------------------------------------------- execute_actions
\* a step's "when": which of hour_in and minute_in it has, and their lists;
\* NoWhen is the absent (or empty) when
NoWhen == [has_hour_in |-> FALSE, hour_in |-> {}, has_minute_in |-> FALSE, minute_in |-> {}]
WhenHourIn(hours) == [NoWhen EXCEPT !.has_hour_in = TRUE, !.hour_in = hours]
WhenMinuteIn(minutes) == [NoWhen EXCEPT !.has_minute_in = TRUE, !.minute_in = minutes]

\* a when_match that looks at hour_in only
WhenMatch_HourOnly(when, hour, minute) ==
    IF when = NoWhen THEN TRUE
    ELSE IF when.has_hour_in /\ hour \notin when.hour_in THEN FALSE
    ELSE TRUE

\* when_match: "if not when" holds for None and for {}
when_match(when, hour, minute) ==
    IF when = NoWhen THEN TRUE
    ELSE IF when.has_hour_in /\ hour \notin when.hour_in THEN FALSE
    ELSE IF when.has_minute_in /\ minute \notin when.minute_in THEN FALSE
    ELSE TRUE

\* the steps an "actions" list may hold
Actions ==
    [type : {"http", "shell"}, when : {NoWhen, WhenHourIn({10}), WhenHourIn({})},
     continue_on_failure : BOOLEAN]

\* the sequences over S of length 1..n
SeqsUpTo(S, n) == UNION {[1..k -> S] : k \in 1..n}

\* one call of execute_actions at 10:00 local, looked at on its own
ChainInit ==
    /\ machines = <<>> /\ jobs = <<>> /\ job_runs = <<>>
    /\ agent = <<>> /\ jobs_cache = <<>> /\ started = <<>>
    /\ abandoned = {} /\ faults = {}
    /\ http = <<>> /\ index = <<>> /\ tmpl = <<>>
    /\ watcher = <<>> /\ loop = <<>> /\ merged = <<>> /\ threads = <<>> /\ clock = <<>>
    /\ record = <<>>
    /\ \E actions \in SeqsUpTo(Actions, MaxActions) :
          chain = [pc |-> "loop", actions |-> actions, now_local |-> 600, idx |-> 0,
                   steps_log |-> <<>>, steps |-> <<>>, called |-> <<>>,
                   status_overall |-> "ok", successful_actions |-> 0,
                   returned |-> "none"]

\* the action the for-loop is at
ChainStep == chain.actions[chain.idx + 1]
AtStep == chain.pc = "loop" /\ chain.idx < Len(chain.actions)
\* continue: on to the next action
Continue(c) == [c EXCEPT !.idx = @ + 1]

\* if step.get("type", "http") != "http": log skipped_unsupported, continue
SkipUnsupported ==
    /\ AtStep
    /\ ChainStep.type # "http"
    /\ chain' = Continue([chain EXCEPT !.steps_log =
                   Append(@, [index |-> chain.idx, status |-> "skipped_unsupported"])])
    /\ UNCHANGED <<fleet, http, index, tmpl, rest>>

\* if not when_match(step.get("when"), now_local): log skipped_when, continue
SkipWhen ==
    /\ AtStep
    /\ ChainStep.type = "http"
    /\ ~when_match(ChainStep.when, HourOf(chain.now_local), MinuteOf(chain.now_local))
    /\ chain' = Continue([chain EXCEPT !.steps_log =
                   Append(@, [index |-> chain.idx, status |-> "skipped_when"])])
    /\ UNCHANGED <<fleet, http, index, tmpl, rest>>

\* mutant: a failed step never ends the chain
AbortsChain_Never(st, step) == FALSE

\* if st != "ok" and not step.get("continue_on_failure", False)
AbortsChain(st, step) == st # "ok" /\ ~step.continue_on_failure

\* the step runner is called, its outcome is logged and pushed to the run's
\* steps, and a failed step without continue_on_failure breaks the loop
RunAction ==
    /\ AtStep
    /\ ChainStep.type = "http"
    /\ when_match(ChainStep.when, HourOf(chain.now_local), MinuteOf(chain.now_local))
    /\ \E st \in {"ok", "error"} :
          LET s == [index |-> chain.idx, status |-> st]
              c == [chain EXCEPT
                      !.called = Append(@, chain.idx),
                      !.successful_actions = IF st = "ok" THEN @ + 1 ELSE @,
                      !.steps_log = Append(@, s),
                      !.steps = Append(@, s)]
          IN chain' = IF AbortsChain(st, ChainStep)
                      THEN [c EXCEPT !.status_overall = "error", !.pc = "return"]
                      ELSE Continue(c)
    /\ UNCHANGED <<fleet, http, index, tmpl, rest>>

\* return status_overall, steps_log, successful_actions
ChainReturn ==
    /\ chain.pc = "return" \/ (chain.pc = "loop" /\ chain.idx >= Len(chain.actions))
    /\ chain' = [chain EXCEPT !.pc = "done", !.returned = chain.status_overall]
    /\ UNCHANGED <<fleet, http, index, tmpl, rest>>

ChainNext ==
    \/ SkipUnsupported
    \/ SkipWhen
    \/ RunAction
    \/ ChainReturn

ChainSpec == ChainInit /\ [][ChainNext]_vars

\* ------------------------------------------------ when_match over its inputs
\* the "when" mappings: hour_in and minute_in each absent, empty, or a list
WhenChoices ==
    { [has_hour_in |-> hh, hour_in |-> IF hh THEN hs ELSE {},
       has_minute_in |-> hm, minute_in |-> IF hm THEN ms ELSE {}] :
        hh \in BOOLEAN, hm \in BOOLEAN,
        hs \in {{}, {10}, {9, 23}}, ms \in {{}, {0}, {15, 30}} }

\* the local times of the tick: 09:00, 10:00, 10:15, 23:30
WhenTimes == {540, 600, 615, 1410}

\* execute_actions on a chain of one or two steps, over every "when" and time
WhenInit ==
    /\ machines = <<>> /\ jobs = <<>> /\ job_runs = <<>>
    /\ agent = <<>> /\ jobs_cache = <<>> /\ started = <<>>
    /\ abandoned = {} /\ faults = {}
    /\ http = <<>> /\ index = <<>> /\ tmpl = <<>>
    /\ watcher = <<>> /\ loop = <<>> /\ merged = <<>> /\ threads = <<>> /\ clock = <<>>
    /\ record = <<>>
    /\ \E first \in [type : {"http", "shell"}, when : WhenChoices, continue_on_failure : {FALSE}],
          rest_of_chain \in {<<>>, << [type |-> "http", when |-> WhenHourIn({10}),
                                       continue_on_failure |-> FALSE] >>},
          now_local \in WhenTimes :
          chain = [pc |-> "loop", actions |-> <<first>> \o rest_of_chain,
                   now_local |-> now_local, idx |-> 0,
                   steps_log |-> <<>>, steps |-> <<>>, called |-> <<>>,
                   status_overall |-> "ok", successful_actions |-> 0,
                   returned |-> "none"]

WhenSpec == WhenInit /\ [][ChainNext]_vars

\* ---------------------------------------- JobsCache: list_for, next fire
MinutesPerHour == 60
\* a local datetime: day, hour, minute, second (microseconds go with the second)
NoTime == [day |-> None, hour |-> None, minute |-> None, second |-> None]

\* the first of a set of (hour, minute) keys in the order the loops visit them
FirstKey(keys) ==
    CHOOSE k \in keys : \A l \in keys : k[1] < l[1] \/ (k[1] = l[1] /\ k[2] <= l[2])

\* mutant: the minute of from_time itself is not skipped
GetNext_IncludesCurrent(mp, from_time) ==
    LET inDay == {k \in DOMAIN mp : k[1] \in 0..(HoursPerDay - 1) /\ k[2] \in 0..(MinutesPerHour - 1)}
        today == {k \in inDay : /\ k[1] >= from_time.hour
                                /\ ~(k[1] = from_time.hour /\ k[2] < from_time.minute)}
    IN IF DOMAIN mp = {} THEN NoTime
       ELSE IF today # {}
       THEN [day |-> from_time.day, hour |-> FirstKey(today)[1],
             minute |-> FirstKey(today)[2], second |-> 0]
       ELSE IF inDay # {}
       THEN [day |-> from_time.day + 1, hour |-> FirstKey(inDay)[1],
             minute |-> FirstKey(inDay)[2], second |-> 0]
       ELSE NoTime

\* mutant: the search does not go on to the next day
GetNext_TodayOnly(mp, from_time) ==
    LET inDay == {k \in DOMAIN mp : k[1] \in 0..(HoursPerDay - 1) /\ k[2] \in 0..(MinutesPerHour - 1)}
        today == {k \in inDay : /\ k[1] >= from_time.hour
                                /\ ~(k[1] = from_time.hour /\ k[2] <= from_time.minute)}
    IN IF DOMAIN mp = {} THEN NoTime
       ELSE IF today # {}
       THEN [day |-> from_time.day, hour |-> FirstKey(today)[1],
             minute |-> FirstKey(today)[2], second |-> 0]
       ELSE NoTime

\* JobsCache.get_next_schedule: the first key the loops over today's remaining
\* (h, m) find, else the first key the loops over a whole day find, a day later
get_next_schedule(mp, from_time) ==
    LET inDay == {k \in DOMAIN mp : k[1] \in 0..(HoursPerDay - 1) /\ k[2] \in 0..(MinutesPerHour - 1)}
        today == {k \in inDay : /\ k[1] >= from_time.hour
                                /\ ~(k[1] = from_time.hour /\ k[2] <= from_time.minute)}
    IN IF DOMAIN mp = {} THEN NoTime
       ELSE IF today # {}
       THEN [day |-> from_time.day, hour |-> FirstKey(today)[1],
             minute |-> FirstKey(today)[2], second |-> 0]
       ELSE IF inDay # {}
       THEN [day |-> from_time.day + 1, hour |-> FirstKey(inDay)[1],
             minute |-> FirstKey(inDay)[2], second |-> 0]
       ELSE NoTime

\* the job documents of the index's store, one of them disabled
IndexJobChoices ==
    { FlatJob(10, 0), FlatJob(None, None), FlatJob(23, 59),
      SchedulesJob(<< [hour |-> None, minute |-> 15] >>),
      SchedulesJob(<< [hour |-> 10, minute |-> 0], [hour |-> None, minute |-> None] >>),
      [FlatJob(8, 30) EXCEPT !.enabled = FALSE] }

\* the local times a query is made at
QueryTimes ==
    [day : {0}, hour : 0..(HoursPerDay - 1), minute : {0, 15, 16, 30, 59}, second : {0, 30}]

\* one JobsCache over a store of jobs, looked at on its own
IndexInit ==
    /\ machines = <<>> /\ jobs = <<>> /\ job_runs = <<>>
    /\ agent = <<>> /\ jobs_cache = <<>> /\ started = <<>>
    /\ abandoned = {} /\ faults = {}
    /\ http = <<>> /\ chain = <<>> /\ tmpl = <<>>
    /\ watcher = <<>> /\ loop = <<>> /\ merged = <<>> /\ threads = <<>> /\ clock = <<>>
    /\ record = <<>>
    /\ \E coll \in [JobIds -> IndexJobChoices], from_time \in QueryTimes :
          index = [pc |-> "new", jobs |-> coll, from_time |-> from_time, map |-> <<>>,
                   listed |-> <<>>, has_listed |-> FALSE,
                   next |-> NoTime, has_next |-> FALSE]

\* JobsCache.__init__: reload()
IndexReload ==
    /\ index.pc = "new"
    /\ index' = [index EXCEPT !.pc = "loaded", !.map = JobsCache_reload(index.jobs)]
    /\ UNCHANGED <<fleet, http, chain, tmpl, rest>>

\* list_for(from_time.hour, from_time.minute)
IndexListFor ==
    /\ index.pc = "loaded" /\ ~index.has_listed
    /\ index' = [index EXCEPT !.has_listed = TRUE,
                    !.listed = list_for(index.map, index.from_time.hour, index.from_time.minute)]
    /\ UNCHANGED <<fleet, http, chain, tmpl, rest>>

\* get_next_schedule(from_time)
IndexGetNextSchedule ==
    /\ index.pc = "loaded" /\ ~index.has_next
    /\ index' = [index EXCEPT !.has_next = TRUE,
                    !.next = get_next_schedule(index.map, index.from_time)]
    /\ UNCHANGED <<fleet, http, chain, tmpl, rest>>

IndexNext ==
    \/ IndexReload
    \/ IndexListFor
    \/ IndexGetNextSchedule

IndexSpec == IndexInit /\ [][IndexNext]_vars

\* ------------------------------------------------------ resolve_templates
\* A string is the sequence of its characters. A value is a string, another
\* scalar (an integer), a list of values or a dict of values.
StrVal(chars) == [kind |-> "str", s |-> chars]
IntVal(n) == [kind |-> "int", n |-> n]
ListVal(items) == [kind |-> "list", items |-> items]
DictVal(keys, items) == [kind |-> "dict", keys |-> keys, items |-> items]

\* "{{" + k + "}}"
Placeholder(k) == <<"{", "{">> \o k \o <<"}", "}">>

\* str(v) of a secret's value
str(v) ==
    IF v.kind = "str" THEN v.s
    ELSE << CASE v.n = 0 -> "0" [] v.n = 1 -> "1" [] v.n = 2 -> "2" [] v.n = 3 -> "3"
              [] v.n = 4 -> "4" [] v.n = 5 -> "5" [] v.n = 6 -> "6" [] v.n = 7 -> "7"
              [] v.n = 8 -> "8" [] v.n = 9 -> "9" >>

\* out.replace(old, new): every occurrence of old, found from the left
\* without overlap, is replaced
RECURSIVE replace(_, _, _)
replace(out, old, new) ==
    IF Len(out) < Len(old) THEN out
    ELSE IF SubSeq(out, 1, Len(old)) = old
    THEN new \o replace(SubSeq(out, Len(old) + 1, Len(out)), old, new)
    ELSE <<Head(out)>> \o replace(Tail(out), old, new)

\* for k, v in secrets.items(): out = out.replace("{{"+k+"}}", str(v))
RECURSIVE ResolveString(_, _)
ResolveString(out, items) ==
    IF items = <<>> THEN out
    ELSE ResolveString(replace(out, Placeholder(Head(items).k), str(Head(items).v)),
                       Tail(items))

\* resolve_templates with CFG["secrets"] as the list of its items, in the
\* dict's iteration order
RECURSIVE resolve_templates(_, _)
resolve_templates(value, secrets) ==
    IF value.kind = "str" THEN StrVal(ResolveString(value.s, secrets))
    ELSE IF value.kind \in {"dict", "list"}
    THEN [value EXCEPT !.items =
            [i \in DOMAIN value.items |-> resolve_templates(value.items[i], secrets)]]
    ELSE value

\* the secrets maps: none, one, two in either order with one value naming the
\* other key, a value that is not a string, a value that is a key, a value
\* that names its own key
SecretMaps ==
    LET A == <<"A">>
        B == <<"B">>
        item(k, v) == [k |-> k, v |-> v]
    IN { <<>>,
         << item(A, StrVal(<<"x">>)) >>,
         << item(A, StrVal(Placeholder(B))), item(B, StrVal(<<"y">>)) >>,
         << item(B, StrVal(<<"y">>)), item(A, StrVal(Placeholder(B))) >>,
         << item(A, IntVal(7)) >>,
         << item(A, StrVal(B)), item(B, StrVal(<<"y">>)) >>,
         << item(A, StrVal(Placeholder(A))) >> }

\* the values: strings with no, one, two, an unknown and a doubly braced
\* placeholder, a scalar, a list and a dict holding a list
TemplateValues ==
    LET A == Placeholder(<<"A">>)
        B == Placeholder(<<"B">>)
        C == Placeholder(<<"C">>)
    IN { StrVal(<<"p">>),
         StrVal(A),
         StrVal(B),
         StrVal(C),
         StrVal(<<"p">> \o A \o <<"q">> \o A),
         StrVal(A \o B),
         StrVal(<<"{", "{">> \o A \o <<"}", "}">>),
         IntVal(5),
         ListVal(<< StrVal(A), IntVal(5) >>),
         DictVal(<< <<"A">>, <<"n">> >>, << StrVal(B), ListVal(<< StrVal(A \o C) >>) >>) }

\* one value and one secrets map, looked at on their own
TemplateInit ==
    /\ machines = <<>> /\ jobs = <<>> /\ job_runs = <<>>
    /\ agent = <<>> /\ jobs_cache = <<>> /\ started = <<>>
    /\ abandoned = {} /\ faults = {}
    /\ http = <<>> /\ chain = <<>> /\ index = <<>>
    /\ watcher = <<>> /\ loop = <<>> /\ merged = <<>> /\ threads = <<>> /\ clock = <<>>
    /\ record = <<>>
    /\ \E value \in TemplateValues, secrets \in SecretMaps :
          tmpl = [pc |-> "new", value |-> value, secrets |-> secrets,
                  once |-> IntVal(0), twice |-> IntVal(0)]

\* resolve_templates(value)
Resolve ==
    /\ tmpl.pc = "new"
    /\ tmpl' = [tmpl EXCEPT !.pc = "once",
                   !.once = resolve_templates(tmpl.value, tmpl.secrets)]
    /\ UNCHANGED <<fleet, http, chain, index, rest>>

\* resolve_templates of what the first call returned
ResolveAgain ==
    /\ tmpl.pc = "once"
    /\ tmpl' = [tmpl EXCEPT !.pc = "twice",
                   !.twice = resolve_templates(tmpl.once, tmpl.secrets)]
    /\ UNCHANGED <<fleet, http, chain, index, rest>>

TemplateNext ==
    \/ Resolve
    \/ ResolveAgain

TemplateSpec == TemplateInit /\ [][TemplateNext]_vars

\* ------------------------------------------------------ commands_watcher
\* the machine_id of the agent, another machine's, and the broadcast target
MyMachineId == "m1"
Targets == {MyMachineId, "m2", "all"}
CommandTypes == {"reload_jobs", "reload_config", "other"}
\* created_at values; the watcher starts with last_seen just before the first
Stamps == 1..MaxCommands

\* the filter of db.commands.find
CommandFilter(cmd, machine_id, last_seen) ==
    /\ cmd.target \in {machine_id, "all"}
    /\ cmd.created_at > last_seen

\* .sort("created_at", 1): the matching documents by created_at, documents of
\* one created_at in insertion order
SortedByCreatedAt(commands, ids) ==
    LET n == Cardinality(ids)
    IN CHOOSE s \in [1..n -> ids] :
          /\ \A i, j \in 1..n : i # j => s[i] # s[j]
          /\ \A i, j \in 1..n : i < j =>
                \/ commands[s[i]].created_at < commands[s[j]].created_at
                \/ /\ commands[s[i]].created_at = commands[s[j]].created_at
                   /\ s[i] < s[j]

\* what handling one command can come to: it is done; jobs_cache.reload or
\* notifier.reload raises a store error; load_config finds no file and calls
\* sys.exit; load_config cannot read or parse the file
DispatchEvents(type) ==
    IF type = "reload_jobs" THEN {"done", "reload_raises"}
    ELSE IF type = "reload_config"
    THEN {"done", "reload_raises", "config_missing", "config_unreadable"}
    ELSE {"done"}

\* the watcher thread has just been started
WatcherInit ==
    /\ machines = <<>> /\ jobs = <<>> /\ job_runs = <<>>
    /\ agent = <<>> /\ jobs_cache = <<>> /\ started = <<>>
    /\ abandoned = {} /\ faults = {}
    /\ http = <<>> /\ chain = <<>> /\ index = <<>> /\ tmpl = <<>>
    /\ loop = <<>> /\ merged = <<>> /\ threads = <<>> /\ clock = <<>>
    /\ record = <<>>
    /\ watcher = [pc |-> "poll", commands |-> <<>>, last_seen |-> 0, cur |-> <<>>,
                  stop_ev |-> FALSE, event |-> "none",
                  found |-> {}, dispatched |-> <<>>]

\* send_command, run by an operator on any machine
send_command ==
    /\ Len(watcher.commands) < MaxCommands
    /\ \E type \in CommandTypes, target \in Targets, created_at \in Stamps :
          watcher' = [watcher EXCEPT !.commands =
                         Append(@, [type |-> type, target |-> target,
                                    created_at |-> created_at])]
    /\ UNCHANGED <<fleet, http, chain, index, tmpl, loop, merged, threads, clock, record>>

\* while not stop_ev.is_set(): db.commands.find(...).sort(...)
FindCommands ==
    /\ watcher.pc = "poll"
    /\ LET ids == {i \in DOMAIN watcher.commands :
                      CommandFilter(watcher.commands[i], MyMachineId, watcher.last_seen)}
       IN watcher' = [watcher EXCEPT
                        !.cur = SortedByCreatedAt(watcher.commands, ids),
                        !.found = @ \cup ids,
                        !.event = "none",
                        !.pc = IF ids = {} THEN "wait" ELSE "iterate"]
    /\ UNCHANGED <<fleet, http, chain, index, tmpl, loop, merged, threads, clock, record>>

\* the find raises a store error: except Exception, print
FindRaises ==
    /\ watcher.pc = "poll"
    /\ watcher' = [watcher EXCEPT !.pc = "wait", !.event = "find_raises"]
    /\ UNCHANGED <<fleet, http, chain, index, tmpl, loop, merged, threads, clock, record>>

\* one pass of "for cmd in cur": the watermark moves to the command, the
\* command is handled; an exception leaves the loop for the except clause,
\* sys.exit ends the thread
DispatchCommand ==
    /\ watcher.pc = "iterate"
    /\ LET c == Head(watcher.cur)
           cmd == watcher.commands[c]
       IN \E event \in DispatchEvents(cmd.type) :
             watcher' = [watcher EXCEPT
                           !.last_seen = cmd.created_at,
                           !.dispatched = Append(@, c),
                           !.event = event,
                           !.cur = IF event = "done" THEN Tail(@) ELSE <<>>,
                           !.pc = IF event = "config_missing" THEN "exited"
                                  ELSE IF event = "done" /\ Tail(watcher.cur) # <<>>
                                  THEN "iterate" ELSE "wait"]
    /\ UNCHANGED <<fleet, http, chain, index, tmpl, loop, merged, threads, clock, record>>

\* stop_ev.wait(5.0), then the loop condition
WaitForNextPoll ==
    /\ watcher.pc = "wait"
    /\ watcher' = [watcher EXCEPT !.pc = IF watcher.stop_ev THEN "returned" ELSE "poll"]
    /\ UNCHANGED <<fleet, http, chain, index, tmpl, loop, merged, threads, clock, record>>

\* handle_sig: stop_ev.set()
SetStop ==
    /\ ~watcher.stop_ev
    /\ watcher.pc \notin {"returned", "exited"}
    /\ watcher' = [watcher EXCEPT !.stop_ev = TRUE]
    /\ UNCHANGED <<fleet, http, chain, index, tmpl, loop, merged, threads, clock, record>>

WatcherNext ==
    \/ send_command
    \/ FindCommands
    \/ FindRaises
    \/ DispatchCommand
    \/ WaitForNextPoll
    \/ SetStop

WatcherSpec == WatcherInit /\ [][WatcherNext]_vars

\* ------------------------------------------- agent_main, one agent's loop
\* The main loop of one agent, call by call, with a store whose calls may
\* raise (PyMongoError) and a signal that may arrive at any point. The job
\* index and the clock decide which branch the loop head takes; the fleet
\* decides the position get_order_context returns.
NoRun == [status |-> "none", end_at |-> FALSE]

\* positions get_order_context may return: first, second, and over the limit
LoopPositions == 1..(MAX_ACTIVE_MACHINES + 1)

\* values the configuration gives MAX_ACTIVE_MACHINES: "max_order" holds any
\* integer, and reload_config may change it between two reads
MaxActiveValues == {0, MAX_ACTIVE_MACHINES}

LoopInit ==
    /\ machines = <<>> /\ jobs = <<>> /\ job_runs = <<>>
    /\ agent = <<>> /\ jobs_cache = <<>> /\ started = <<>>
    /\ abandoned = {} /\ faults = {}
    /\ http = <<>> /\ chain = <<>> /\ index = <<>> /\ tmpl = <<>>
    /\ watcher = <<>> /\ merged = <<>> /\ threads = <<>> /\ clock = <<>>
    /\ record = <<>>
    /\ loop = [pc |-> "top", check_marker |-> 0, my_position |-> 0,
               max_active |-> MAX_ACTIVE_MACHINES, over_limit |-> "none",
               run |-> NoRun, st |-> "none", stop_ev |-> FALSE,
               raised |-> "none", at_exit |-> "none"]

\* an exception the try block of the main loop catches: print, traceback, and
\* the loop goes on
Caught(l, what) == [l EXCEPT !.pc = "top", !.raised = what, !.check_marker = 0]
\* an exception raised outside the try block leaves agent_main
Uncaught(l, what) == [l EXCEPT !.pc = "terminated", !.raised = what]
\* process_minute returns to the main loop, which goes to its next iteration
Returned(l) == [l EXCEPT !.pc = "top", !.check_marker = 0]

\* get_next_schedule returns None: sleep to the next half hour, then
\* jobs_cache.reload(), outside the try block
NoJobsReload ==
    /\ loop.pc = "top"
    /\ \E ok \in BOOLEAN :
          loop' = IF ok THEN [loop EXCEPT !.raised = "none"]
                  ELSE Uncaught(loop, "reload")
    /\ UNCHANGED <<fleet, http, chain, index, tmpl, watcher, merged, threads, clock, record>>

\* the next schedule is more than 30 minutes away: sleep 30 minutes, then
\* jobs_cache.reload(), outside the try block
LongWaitReload ==
    /\ loop.pc = "top"
    /\ \E ok \in BOOLEAN :
          loop' = IF ok THEN [loop EXCEPT !.raised = "none", !.st = "none"]
                  ELSE Uncaught(loop, "reload_after_long_wait")
    /\ UNCHANGED <<fleet, http, chain, index, tmpl, watcher, merged, threads, clock, record>>

\* the next schedule is near: db.machines.find_one for the countdown, outside
\* the try block, then the countdown and process_minute(..., 0)
OrderLookup ==
    /\ loop.pc = "top"
    /\ \E ok \in BOOLEAN :
          loop' = IF ok
                  THEN [loop EXCEPT !.pc = "heartbeat", !.raised = "none",
                                    !.run = NoRun, !.st = "none", !.my_position = 0,
                                    !.over_limit = "none"]
                  ELSE Uncaught(loop, "order_lookup")
    /\ UNCHANGED <<fleet, http, chain, index, tmpl, watcher, merged, threads, clock, record>>

\* process_minute, Phase A: update_heartbeat
Heartbeat ==
    /\ loop.pc = "heartbeat"
    /\ \E ok \in BOOLEAN :
          loop' = IF ok THEN [loop EXCEPT !.pc = "reload"] ELSE Caught(loop, "heartbeat")
    /\ UNCHANGED <<fleet, http, chain, index, tmpl, watcher, merged, threads, clock, record>>

\* process_minute, Phase A: jobs_cache.reload()
ReloadInTick ==
    /\ loop.pc = "reload"
    /\ \E ok \in BOOLEAN :
          loop' = IF ok THEN [loop EXCEPT !.pc = "context"] ELSE Caught(loop, "reload_in_tick")
    /\ UNCHANGED <<fleet, http, chain, index, tmpl, watcher, merged, threads, clock, record>>

\* get_order_context of Phase A or Phase B and the branch that follows it: over
\* the limit, deferred to the recheck, standing down, no jobs, or the job loop
OrderContext ==
    /\ loop.pc = "context"
    /\ \/ loop' = Caught(loop, "order_context")
       \/ \E position \in LoopPositions, max_active \in MaxActiveValues,
             earlier_online \in BOOLEAN, no_jobs \in BOOLEAN :
             LET l == [loop EXCEPT !.my_position = position, !.max_active = max_active]
             IN loop' =
                  IF OverLimit(max_active, position)
                  THEN Returned([l EXCEPT !.over_limit =
                                    IF loop.check_marker = 0 THEN "phase_a" ELSE "phase_b"])
                  ELSE IF loop.check_marker = 0 /\ (position - 1) * OFFSET_STEP_SEC > 0
                  THEN [l EXCEPT !.check_marker = 1]
                  ELSE IF loop.check_marker # 0 /\ position > 1 /\ earlier_online
                  THEN Returned(l)
                  ELSE IF no_jobs THEN Returned(l)
                  ELSE [l EXCEPT !.pc = "find_job"]
    /\ UNCHANGED <<fleet, http, chain, index, tmpl, watcher, merged, threads, clock, record>>

\* db.jobs.find_one({"_id": ..., "enabled": True})
FindEnabledJob ==
    /\ loop.pc = "find_job"
    /\ \/ loop' = Caught(loop, "find_job")
       \/ \E enabled \in BOOLEAN :
             loop' = IF enabled THEN [loop EXCEPT !.pc = "claim"] ELSE Returned(loop)
    /\ UNCHANGED <<fleet, http, chain, index, tmpl, watcher, merged, threads, clock, record>>

\* claim_job_run: True with the run document set to running, or False (the
\* run is another machine's, or the store call failed inside claim_job_run)
ClaimRun ==
    /\ loop.pc = "claim"
    /\ \E won \in BOOLEAN :
          loop' = IF won
                  THEN [loop EXCEPT !.pc = "step", !.run = [status |-> "running", end_at |-> FALSE]]
                  ELSE Returned(loop)
    /\ UNCHANGED <<fleet, http, chain, index, tmpl, watcher, merged, threads, clock, record>>

\* run_http_with_retry_with_progress is called: it raises before its loop (a
\* retry setting that is no number, a url that is no string), or it begins an
\* attempt
BeginStep ==
    /\ loop.pc = "step"
    /\ \E ok \in BOOLEAN :
          loop' = IF ok THEN [loop EXCEPT !.pc = "in_flight"] ELSE Caught(loop, "step")
    /\ UNCHANGED <<fleet, http, chain, index, tmpl, watcher, merged, threads, clock, record>>

\* the request of the attempt returns or raises inside the step runner's try
\* block; the step runner makes another attempt or returns ok or error
AttemptCompletes ==
    /\ loop.pc = "in_flight"
    /\ \/ loop' = [loop EXCEPT !.pc = "retry_sleep"]
       \/ \E st \in {"ok", "error"} : loop' = [loop EXCEPT !.pc = "push", !.st = st]
    /\ UNCHANGED <<fleet, http, chain, index, tmpl, watcher, merged, threads, clock, record>>

\* the sleep before the next attempt, and the next attempt begins
RetrySleep ==
    /\ loop.pc = "retry_sleep"
    /\ loop' = [loop EXCEPT !.pc = "in_flight"]
    /\ UNCHANGED <<fleet, http, chain, index, tmpl, watcher, merged, threads, clock, record>>

\* db.job_runs.update_one(run_key, {"$push": {"steps": s}})
PushStep ==
    /\ loop.pc = "push"
    /\ \E ok \in BOOLEAN :
          loop' = IF ok THEN [loop EXCEPT !.pc = "finalize"] ELSE Caught(loop, "push")
    /\ UNCHANGED <<fleet, http, chain, index, tmpl, watcher, merged, threads, clock, record>>

\* db.job_runs.update_one(run_key, {"$set": {start_at, end_at, status}}); the
\* notification that follows swallows its own errors
Finalize ==
    /\ loop.pc = "finalize"
    /\ \E ok \in BOOLEAN :
          loop' = IF ok
                  THEN Returned([loop EXCEPT !.run = [status |-> loop.st, end_at |-> TRUE]])
                  ELSE Caught(loop, "finalize")
    /\ UNCHANGED <<fleet, http, chain, index, tmpl, watcher, merged, threads, clock, record>>

\* SIGINT or SIGTERM: handle_sig sets the stop flag and calls sys.exit(0) in
\* the main thread, wherever that thread is; SystemExit is no Exception, so
\* neither the step runner nor the main loop catches it
handle_sig ==
    /\ loop.pc \notin {"terminated", "exited"}
    /\ loop' = [loop EXCEPT !.stop_ev = TRUE, !.pc = "exited", !.at_exit = loop.pc]
    /\ UNCHANGED <<fleet, http, chain, index, tmpl, watcher, merged, threads, clock, record>>

LoopNext ==
    \/ NoJobsReload
    \/ LongWaitReload
    \/ OrderLookup
    \/ Heartbeat
    \/ ReloadInTick
    \/ OrderContext
    \/ FindEnabledJob
    \/ ClaimRun
    \/ BeginStep
    \/ AttemptCompletes
    \/ RetrySleep
    \/ PushStep
    \/ Finalize
    \/ handle_sig

LoopSpec == LoopInit /\ [][LoopNext]_vars

\* ------------------------------------- timeout and retry settings of a step
\* A key a document does not have; None is a key whose value is null.
Missing == 0 - 3

\* d.get(key, default) for the value v the document holds under the key
Get(v, default) == IF v = Missing THEN default ELSE v

\* a "retry" value: the key is absent, its value is null, or it is a dict
\* holding some of retries, delay_sec and backoff
NoRetry == [kind |-> "missing", retries |-> Missing, delay_sec |-> Missing, backoff |-> Missing]
NullRetry == [NoRetry EXCEPT !.kind = "none"]
EmptyRetry == [NoRetry EXCEPT !.kind = "dict"]
\* d.get("retry", default)
GetRetry(retry, default) == IF retry.kind = "missing" THEN default ELSE retry
\* x or {}
OrEmpty(retry) == IF retry.kind = "dict" THEN retry ELSE EmptyRetry

\* the settings one level may hold, with the values that level uses
LevelSettings(timeout_sec, retries, delay_sec, backoff) ==
    [timeout_sec : {Missing, timeout_sec},
     retry : {NoRetry} \cup
             [kind : {"dict"}, retries : {Missing, retries},
              delay_sec : {Missing, delay_sec}, backoff : {Missing, backoff}]]

\* CFG["http_defaults"], the job document and a step of its "actions"
GlobalSettings == LevelSettings(10, 2, 3, 2)
JobSettings == LevelSettings(20, 4, 5, 3)
StepSettings == LevelSettings(30, 6, 7, 4)

\* the step process_minute builds for a job without "actions"
FlatStep(job) ==
    [timeout_sec |-> Get(job.timeout_sec, None),
     retry |-> GetRetry(job.retry, NullRetry)]

\* the defaults execute_actions and process_minute hand to the step runner
JobDefaults(http_defaults, job) ==
    [timeout_sec |-> Get(job.timeout_sec, Get(http_defaults.timeout_sec, 10)),
     retry |-> GetRetry(job.retry, GetRetry(http_defaults.retry, EmptyRetry))]

\* run_http_with_retry_with_progress: timeout
StepTimeout(step, defaults) == Get(step.timeout_sec, Get(defaults.timeout_sec, 10))

\* run_http_with_retry_with_progress: retries, delay, backoff
StepRetry(step, defaults) ==
    LET rdef == OrEmpty(GetRetry(defaults.retry, EmptyRetry))
        rcfg == OrEmpty(GetRetry(step.retry, EmptyRetry))
    IN [retries |-> Get(rcfg.retries, Get(rdef.retries, 0)),
        delay_sec |-> Get(rcfg.delay_sec, Get(rdef.delay_sec, 0)),
        backoff |-> Get(rcfg.backoff, Get(rdef.backoff, 1))]

\* a job with http_defaults: a step of its action chain, or the job itself
\* run as one flat HTTP step
MergeInit ==
    /\ machines = <<>> /\ jobs = <<>> /\ job_runs = <<>>
    /\ agent = <<>> /\ jobs_cache = <<>> /\ started = <<>>
    /\ abandoned = {} /\ faults = {}
    /\ http = <<>> /\ chain = <<>> /\ index = <<>> /\ tmpl = <<>>
    /\ watcher = <<>> /\ loop = <<>> /\ threads = <<>> /\ clock = <<>>
    /\ record = <<>>
    /\ \E http_defaults \in GlobalSettings, job \in JobSettings :
          \/ \E step \in StepSettings :
                merged = [pc |-> "chain", flat |-> FALSE, http_defaults |-> http_defaults, job |-> job,
                          step |-> step, timeout |-> Missing, retry |-> EmptyRetry]
          \/ merged = [pc |-> "flat", flat |-> TRUE, http_defaults |-> http_defaults, job |-> job,
                       step |-> [timeout_sec |-> Missing, retry |-> NoRetry],
                       timeout |-> Missing, retry |-> EmptyRetry]

\* the settings of one run of the step runner
UsedSettings(m, step) ==
    [m EXCEPT !.pc = "run", !.step = step,
              !.timeout = StepTimeout(step, JobDefaults(m.http_defaults, m.job)),
              !.retry = [EmptyRetry EXCEPT
                           !.retries = StepRetry(step, JobDefaults(m.http_defaults, m.job)).retries,
                           !.delay_sec = StepRetry(step, JobDefaults(m.http_defaults, m.job)).delay_sec,
                           !.backoff = StepRetry(step, JobDefaults(m.http_defaults, m.job)).backoff]]

\* execute_actions runs a step of the chain
RunChainStep ==
    /\ merged.pc = "chain"
    /\ merged' = UsedSettings(merged, merged.step)
    /\ UNCHANGED <<fleet, http, chain, index, tmpl, watcher, loop, threads, clock, record>>

\* process_minute builds the flat step and runs it
RunFlatJob ==
    /\ merged.pc = "flat"
    /\ merged' = UsedSettings(merged, FlatStep(merged.job))
    /\ UNCHANGED <<fleet, http, chain, index, tmpl, watcher, loop, threads, clock, record>>

MergeNext ==
    \/ RunChainStep
    \/ RunFlatJob

MergeSpec == MergeInit /\ [][MergeNext]_vars

\* ----------------------------- the watcher thread beside the main thread
\* The watcher thread handles reload_jobs and reload_config while the main
\* thread reads the order settings and the job index. Each step is one
\* statement on the shared objects; the threads interleave between steps.

\* "order_field" values of the configuration file
OrderFields == {"order", "rank"}

\* the alias list refresh_order_settings builds for an order_field: the keys
\* (PRIMARY_ORDER_FIELD, "order", "serial") without repetition
AliasKeys(primary) == <<primary, "order", "serial">>
RECURSIVE AppendNew(_, _)
AppendNew(aliases, keys) ==
    IF keys = <<>> THEN aliases
    ELSE AppendNew(IF \E n \in DOMAIN aliases : aliases[n] = Head(keys)
                   THEN aliases ELSE Append(aliases, Head(keys)),
                   Tail(keys))
AliasesFor(primary) == AppendNew(<<>>, AliasKeys(primary))

\* the states of db.jobs: one job at 08:00, at 11:00, every hour at :30, or
\* no enabled job
ThreadCollections ==
    { [j \in JobIds |-> IF j = 1 THEN d ELSE [FlatJob(8, 30) EXCEPT !.enabled = FALSE]] :
        d \in {FlatJob(8, 0), FlatJob(11, 0), FlatJob(None, 30),
               [FlatJob(8, 0) EXCEPT !.enabled = FALSE]} }

\* the main loop asks at 10:00
ThreadQueryTime == [day |-> 0, hour |-> 10, minute |-> 0, second |-> 0]
\* and lists the bucket of 11:00
ThreadListKey == <<11, 0>>

\* mutant: the lock excludes nobody
CanAcquire_Unguarded(lock) == TRUE

\* threading.Lock: acquire succeeds when nobody holds it
CanAcquire(lock) == lock = "free"

ThreadsInit ==
    /\ machines = <<>> /\ jobs = <<>> /\ job_runs = <<>>
    /\ agent = <<>> /\ jobs_cache = <<>> /\ started = <<>>
    /\ abandoned = {} /\ faults = {}
    /\ http = <<>> /\ chain = <<>> /\ index = <<>> /\ tmpl = <<>>
    /\ watcher = <<>> /\ loop = <<>> /\ merged = <<>> /\ clock = <<>>
    /\ record = <<>>
    /\ \E coll \in ThreadCollections, order_field \in OrderFields :
          threads = [jobs |-> coll, order_field |-> order_field,
                     PRIMARY_ORDER_FIELD |-> order_field,
                     ORDER_FIELD_ALIASES |-> AliasesFor(order_field),
                     map |-> JobsCache_reload(coll), lock |-> "free",
                     wpc |-> "idle", CFG |-> order_field, key_i |-> 0, mp |-> <<>>,
                     mpc |-> "idle", aliases_read |-> AliasesFor(order_field),
                     listed |-> <<>>, has_listed |-> FALSE,
                     next |-> NoTime, has_next |-> FALSE, seen |-> {},
                     last_call |-> "none"]

\* ---- the environment
\* an operator edits db.jobs
ChangeJobs ==
    /\ \E coll \in ThreadCollections \ {threads.jobs} :
          threads' = [threads EXCEPT !.jobs = coll]
    /\ UNCHANGED <<fleet, http, chain, index, tmpl, watcher, loop, merged, clock, record>>

\* an operator edits "order_field" in the configuration file
ChangeOrderField ==
    /\ \E order_field \in OrderFields \ {threads.order_field} :
          threads' = [threads EXCEPT !.order_field = order_field]
    /\ UNCHANGED <<fleet, http, chain, index, tmpl, watcher, loop, merged, clock, record>>

\* ---- the watcher thread
\* a reload_jobs command: jobs_cache.reload() begins
WatcherReloadJobs ==
    /\ threads.wpc = "idle"
    /\ threads' = [threads EXCEPT !.wpc = "query"]
    /\ UNCHANGED <<fleet, http, chain, index, tmpl, watcher, loop, merged, clock, record>>

\* a reload_config command: CFG = load_config()
WatcherLoadConfig ==
    /\ threads.wpc = "idle"
    /\ threads' = [threads EXCEPT !.wpc = "set_primary", !.CFG = threads.order_field]
    /\ UNCHANGED <<fleet, http, chain, index, tmpl, watcher, loop, merged, clock, record>>

\* refresh_order_settings: PRIMARY_ORDER_FIELD = CFG.get("order_field", "order")
RefreshSetPrimary ==
    /\ threads.wpc = "set_primary"
    /\ threads' = [threads EXCEPT !.wpc = "clear_aliases",
                                  !.PRIMARY_ORDER_FIELD = threads.CFG]
    /\ UNCHANGED <<fleet, http, chain, index, tmpl, watcher, loop, merged, clock, record>>

\* refresh_order_settings: ORDER_FIELD_ALIASES = []
RefreshClearAliases ==
    /\ threads.wpc = "clear_aliases"
    /\ threads' = [threads EXCEPT !.wpc = "append_alias", !.key_i = 1,
                                  !.ORDER_FIELD_ALIASES = <<>>]
    /\ UNCHANGED <<fleet, http, chain, index, tmpl, watcher, loop, merged, clock, record>>

\* refresh_order_settings: one pass of the for loop over the three keys; after
\* the last the rest of reload_config follows, up to jobs_cache.reload()
RefreshAppendAlias ==
    /\ threads.wpc = "append_alias"
    /\ LET keys == AliasKeys(threads.PRIMARY_ORDER_FIELD)
       IN threads' = [threads EXCEPT
                        !.ORDER_FIELD_ALIASES = AppendNew(@, <<keys[threads.key_i]>>),
                        !.key_i = IF threads.key_i < Len(keys) THEN @ + 1 ELSE 0,
                        !.wpc = IF threads.key_i < Len(keys) THEN "append_alias" ELSE "query"]
    /\ UNCHANGED <<fleet, http, chain, index, tmpl, watcher, loop, merged, clock, record>>

\* a reload that takes the lock before it queries the store
ReloadBuild_HoldsLock ==
    /\ threads.wpc = "query"
    /\ CanAcquire(threads.lock)
    /\ threads' = [threads EXCEPT !.wpc = "acquire", !.lock = "watcher",
                                  !.mp = JobsCache_reload(threads.jobs)]
    /\ UNCHANGED <<fleet, http, chain, index, tmpl, watcher, loop, merged, clock, record>>

\* JobsCache.reload: mp is built from db.jobs.find({"enabled": True})
ReloadBuild ==
    /\ threads.wpc = "query"
    /\ threads' = [threads EXCEPT !.wpc = "acquire", !.mp = JobsCache_reload(threads.jobs)]
    /\ UNCHANGED <<fleet, http, chain, index, tmpl, watcher, loop, merged, clock, record>>

\* JobsCache.reload: with self._lock
ReloadAcquire ==
    /\ threads.wpc = "acquire"
    /\ CanAcquire(threads.lock)
    /\ threads' = [threads EXCEPT !.wpc = "swap", !.lock = "watcher"]
    /\ UNCHANGED <<fleet, http, chain, index, tmpl, watcher, loop, merged, clock, record>>

\* JobsCache.reload: self._map = mp, and the lock is released
ReloadSwap ==
    /\ threads.wpc = "swap"
    /\ threads' = [threads EXCEPT !.wpc = "idle", !.lock = "free", !.map = threads.mp,
                                  !.mp = <<>>,
                                  !.seen = IF threads.mpc = "idle" THEN @
                                           ELSE @ \cup {threads.mp}]
    /\ UNCHANGED <<fleet, http, chain, index, tmpl, watcher, loop, merged, clock, record>>

\* ---- the main thread
\* extract_order_value, build_order_field_map, get_all_machines_sorted: the
\* alias list is read
ReadAliases ==
    /\ threads.mpc = "idle"
    /\ threads' = [threads EXCEPT !.aliases_read = threads.ORDER_FIELD_ALIASES]
    /\ UNCHANGED <<fleet, http, chain, index, tmpl, watcher, loop, merged, clock, record>>

\* list_for: with self._lock
ListForAcquire ==
    /\ threads.mpc = "idle"
    /\ CanAcquire(threads.lock)
    /\ threads' = [threads EXCEPT !.mpc = "list_for", !.lock = "main",
                                  !.seen = {threads.map}]
    /\ UNCHANGED <<fleet, http, chain, index, tmpl, watcher, loop, merged, clock, record>>

\* list_for: return list(self._map.get((hour, minute), [])), lock released
ListForReturn ==
    /\ threads.mpc = "list_for"
    /\ threads' = [threads EXCEPT !.mpc = "idle", !.lock = "free", !.has_listed = TRUE,
                     !.last_call = "list_for",
                     !.listed = list_for(threads.map, ThreadListKey[1], ThreadListKey[2])]
    /\ UNCHANGED <<fleet, http, chain, index, tmpl, watcher, loop, merged, clock, record>>

\* get_next_schedule: with self._lock
NextScheduleAcquire ==
    /\ threads.mpc = "idle"
    /\ CanAcquire(threads.lock)
    /\ threads' = [threads EXCEPT !.mpc = "check_empty", !.lock = "main",
                                  !.seen = {threads.map}, !.has_next = FALSE]
    /\ UNCHANGED <<fleet, http, chain, index, tmpl, watcher, loop, merged, clock, record>>

\* the call returns: the lock is released
NextScheduleReturns(t, next) ==
    [t EXCEPT !.mpc = "idle", !.lock = "free", !.has_next = TRUE, !.next = next,
              !.last_call = "get_next_schedule"]

\* get_next_schedule: if not self._map: return None
NextScheduleCheckEmpty ==
    /\ threads.mpc = "check_empty"
    /\ threads' = IF DOMAIN threads.map = {}
                  THEN NextScheduleReturns(threads, NoTime)
                  ELSE [threads EXCEPT !.mpc = "today"]
    /\ UNCHANGED <<fleet, http, chain, index, tmpl, watcher, loop, merged, clock, record>>

\* get_next_schedule: the loops over the rest of today
NextScheduleToday ==
    /\ threads.mpc = "today"
    /\ LET found == get_next_schedule(threads.map, ThreadQueryTime)
       IN threads' = IF found # NoTime /\ found.day = ThreadQueryTime.day
                     THEN NextScheduleReturns(threads, found)
                     ELSE [threads EXCEPT !.mpc = "tomorrow"]
    /\ UNCHANGED <<fleet, http, chain, index, tmpl, watcher, loop, merged, clock, record>>

\* get_next_schedule: the loops over a whole day, for tomorrow; they find what
\* a search from the last minute of today finds
NextScheduleTomorrow ==
    /\ threads.mpc = "tomorrow"
    /\ threads' = NextScheduleReturns(threads,
                     get_next_schedule(threads.map,
                        [ThreadQueryTime EXCEPT !.hour = HoursPerDay - 1,
                                                !.minute = MinutesPerHour - 1]))
    /\ UNCHANGED <<fleet, http, chain, index, tmpl, watcher, loop, merged, clock, record>>

ThreadsNext ==
    \/ ChangeJobs
    \/ ChangeOrderField
    \/ WatcherReloadJobs
    \/ WatcherLoadConfig
    \/ RefreshSetPrimary
    \/ RefreshClearAliases
    \/ RefreshAppendAlias
    \/ ReloadBuild
    \/ ReloadAcquire
    \/ ReloadSwap
    \/ ReadAliases
    \/ ListForAcquire
    \/ ListForReturn
    \/ NextScheduleAcquire
    \/ NextScheduleCheckEmpty
    \/ NextScheduleToday
    \/ NextScheduleTomorrow

ThreadsSpec == ThreadsInit /\ [][ThreadsNext]_vars

\* ----------------------------------------- agent_main against the wall clock
\* The main loop of one agent with the time of day in seconds: what it sleeps
\* for, when it reloads the index, and which scheduled minutes it calls
\* process_minute for. A call of the store takes no time; the order wait of
\* Phase A and the execution of the jobs take the time given below.
MaxDays == 1          \* the loop picks its next schedule on days 0..MaxDays-1

SecondsPerMinute == 60
SecondsPerHour == SecondsPerMinute * MinutesPerHour
SecondsPerDay == SecondsPerHour * HoursPerDay

\* datetime of a count of seconds, and back
ClockTime(sec) ==
    [day |-> sec \div SecondsPerDay, hour |-> (sec \div SecondsPerHour) % HoursPerDay,
     minute |-> (sec \div SecondsPerMinute) % MinutesPerHour, second |-> sec % SecondsPerMinute]
ClockSeconds(t) ==
    t.day * SecondsPerDay + t.hour * SecondsPerHour + t.minute * SecondsPerMinute + t.second

\* max_sleep = 30 * 60
MaxSleepSec == 30 * SecondsPerMinute

\* a loop that always sleeps to the next full hour
NextHalfHour_FullHour(now) == now - (now % SecondsPerHour) + SecondsPerHour

\* next_check of the branch without jobs: the next :30 or :00
NextHalfHour(now) ==
    LET top_of_hour == now - (now % SecondsPerHour)
    IN IF ClockTime(now).minute < 30 THEN top_of_hour + 30 * SecondsPerMinute
       ELSE top_of_hour + SecondsPerHour

\* show_order_wait_countdown: the seconds it takes
OrderWaitSeconds(use_rich, wait_seconds) == IF use_rich THEN wait_seconds ELSE 0

\* the states of db.jobs: jobs at 10:00 and 10:01, at 10:00 and 10:40, at
\* 10:00 only, or no enabled job
ClockCollections ==
    { [j \in JobIds |-> IF j = 1 THEN a ELSE b] :
        <<a, b>> \in { <<FlatJob(10, 0), FlatJob(10, 1)>>,
                       <<FlatJob(10, 0), FlatJob(10, 40)>>,
                       <<FlatJob(10, 0), [FlatJob(8, 30) EXCEPT !.enabled = FALSE]>>,
                       <<[FlatJob(10, 0) EXCEPT !.enabled = FALSE],
                         [FlatJob(8, 30) EXCEPT !.enabled = FALSE]>> } }

\* the agent is started at 09:59:30 or at 10:00:30
ClockStarts == {9 * SecondsPerHour + 59 * SecondsPerMinute + 30, 10 * SecondsPerHour + 30}

\* the seconds Phase C takes: no job won, a quick job, jobs that time out
ExecSeconds == {0, 20, 70}

ClockInit ==
    /\ machines = <<>> /\ jobs = <<>> /\ job_runs = <<>>
    /\ agent = <<>> /\ jobs_cache = <<>> /\ started = <<>>
    /\ abandoned = {} /\ faults = {}
    /\ http = <<>> /\ chain = <<>> /\ index = <<>> /\ tmpl = <<>>
    /\ watcher = <<>> /\ loop = <<>> /\ merged = <<>> /\ threads = <<>>
    /\ record = <<>>
    /\ \E coll \in ClockCollections, start \in ClockStarts, use_rich \in BOOLEAN :
          clock = [pc |-> "top", now |-> start, started |-> start, USE_RICH |-> use_rich,
                   jobs |-> coll, map |-> JobsCache_reload(coll), loaded_at |-> start,
                   next |-> None, ticks |-> <<>>,
                   last_sleep |-> 0, since_reload |-> 0, heartbeat_raised |-> FALSE,
                   my_position |-> 0, phase_a_at |-> None, phase_b_at |-> None]

\* time.sleep(sec) or a countdown of sec seconds in the main loop
Slept(c, sec) ==
    [c EXCEPT !.now = c.now + sec, !.last_sleep = sec, !.since_reload = c.since_reload + sec]

\* jobs_cache.reload()
Reloaded(c) ==
    [c EXCEPT !.map = JobsCache_reload(c.jobs), !.loaded_at = c.now,
              !.since_reload = 0, !.heartbeat_raised = FALSE]

\* somebody edits db.jobs
ClockChangeJobs ==
    /\ clock.pc # "top"
    /\ \E coll \in ClockCollections \ {clock.jobs} : clock' = [clock EXCEPT !.jobs = coll]
    /\ UNCHANGED <<fleet, http, chain, index, tmpl, watcher, loop, merged, threads, record>>

\* the head of the loop: get_next_schedule(now_local) and the branch taken
ChooseNext ==
    /\ clock.pc = "top"
    /\ ClockTime(clock.now).day < MaxDays
    /\ LET next_schedule == get_next_schedule(clock.map, ClockTime(clock.now))
           sleep_sec == ClockSeconds(next_schedule) - clock.now
       IN clock' =
            IF next_schedule = NoTime
            THEN [clock EXCEPT !.pc = "no_jobs", !.next = None]
            ELSE IF sleep_sec > MaxSleepSec
            THEN [clock EXCEPT !.pc = "long_wait", !.next = ClockSeconds(next_schedule)]
            ELSE [clock EXCEPT !.pc = "countdown", !.next = ClockSeconds(next_schedule)]
    /\ UNCHANGED <<fleet, http, chain, index, tmpl, watcher, loop, merged, threads, record>>

\* no schedule: time.sleep to the next half hour
SleepToHalfHour ==
    /\ clock.pc = "no_jobs"
    /\ clock' = [Slept(clock, NextHalfHour(clock.now) - clock.now) EXCEPT !.pc = "reload"]
    /\ UNCHANGED <<fleet, http, chain, index, tmpl, watcher, loop, merged, threads, record>>

\* the schedule is more than max_sleep away: sleep max_sleep
SleepLongWait ==
    /\ clock.pc = "long_wait"
    /\ clock' = [Slept(clock, MaxSleepSec) EXCEPT !.pc = "reload"]
    /\ UNCHANGED <<fleet, http, chain, index, tmpl, watcher, loop, merged, threads, record>>

\* jobs_cache.reload(); continue
ReloadAndContinue ==
    /\ clock.pc = "reload"
    /\ clock' = [Reloaded(clock) EXCEPT !.pc = "top"]
    /\ UNCHANGED <<fleet, http, chain, index, tmpl, watcher, loop, merged, threads, record>>

\* if sleep_sec > 0: show_countdown(next_schedule, ...), with or without rich
\* it returns when the schedule is reached
Countdown ==
    /\ clock.pc = "countdown"
    /\ LET sleep_sec == clock.next - clock.now
       IN clock' = [(IF sleep_sec > 0 THEN Slept(clock, sleep_sec) ELSE clock)
                       EXCEPT !.pc = "phase_a"]
    /\ UNCHANGED <<fleet, http, chain, index, tmpl, watcher, loop, merged, threads, record>>

\* process_minute(..., next_schedule, 0): update_heartbeat, which may raise
\* into the main loop's except; then reload, get_order_context, the limit
\* test, and the order wait or Phase C
PhaseA ==
    /\ clock.pc = "phase_a"
    /\ LET c == [clock EXCEPT !.ticks = Append(clock.ticks, clock.next),
                              !.phase_a_at = clock.now, !.phase_b_at = None,
                              !.my_position = 0]
       IN \/ clock' = [c EXCEPT !.pc = "top", !.heartbeat_raised = TRUE]
          \/ \E position \in LoopPositions :
                LET wait_seconds == IF (position - 1) * OFFSET_STEP_SEC > 0
                                    THEN (position - 1) * OFFSET_STEP_SEC ELSE 0
                IN clock' = [Reloaded(c) EXCEPT
                               !.my_position = position,
                               !.pc = IF OverLimit(MAX_ACTIVE_MACHINES, position) THEN "top"
                                      ELSE IF wait_seconds > 0 THEN "order_wait"
                                      ELSE "phase_c"]
    /\ UNCHANGED <<fleet, http, chain, index, tmpl, watcher, loop, merged, threads, record>>

\* show_order_wait_countdown(wait_seconds), and process_minute returns the
\* deferred marker
OrderWait ==
    /\ clock.pc = "order_wait"
    /\ clock' = [clock EXCEPT
                   !.now = clock.now + OrderWaitSeconds(clock.USE_RICH,
                                          (clock.my_position - 1) * OFFSET_STEP_SEC),
                   !.pc = "phase_b"]
    /\ UNCHANGED <<fleet, http, chain, index, tmpl, watcher, loop, merged, threads, record>>

\* process_minute(..., next_schedule, marker): get_order_context again, the
\* limit test and the test for earlier machines
PhaseB ==
    /\ clock.pc = "phase_b"
    /\ \E position \in LoopPositions, earlier_online \in BOOLEAN :
          clock' = [clock EXCEPT
                      !.phase_b_at = clock.now,
                      !.pc = IF OverLimit(MAX_ACTIVE_MACHINES, position) THEN "top"
                             ELSE IF position > 1 /\ earlier_online THEN "top"
                             ELSE "phase_c"]
    /\ UNCHANGED <<fleet, http, chain, index, tmpl, watcher, loop, merged, threads, record>>

\* Phase C: the jobs of the bucket, one after another, and the return to the
\* main loop
PhaseC ==
    /\ clock.pc = "phase_c"
    /\ \E sec \in ExecSeconds : clock' = [clock EXCEPT !.now = clock.now + sec, !.pc = "top"]
    /\ UNCHANGED <<fleet, http, chain, index, tmpl, watcher, loop, merged, threads, record>>

ClockNext ==
    \/ ClockChangeJobs
    \/ ChooseNext
    \/ SleepToHalfHour
    \/ SleepLongWait
    \/ ReloadAndContinue
    \/ Countdown
    \/ PhaseA
    \/ OrderWait
    \/ PhaseB
    \/ PhaseC

ClockSpec == ClockInit /\ [][ClockNext]_vars


\* ------------------------------------ ensure_machine_record on one document
\* One document of db.machines with the fields the order is read from, and
\* calls of ensure_machine_record for it. The aliases are those of the
\* default configuration, ("order", "serial").
MaxCalls == 2         \* calls of ensure_machine_record on the document

\* a field value that int() rejects, and the string of digits of a number
\* (a value below -StringBase)
NotANumber == 0 - 4
StringBase == 100
DigitsOf(n) == 0 - (StringBase + n)

\* int(document[key]): the number, the number a string of digits spells, or
\* ValueError / TypeError
IsInt(v) == v >= 0 \/ v <= 0 - StringBase
IntOf(v) == IF v <= 0 - StringBase THEN (0 - v) - StringBase ELSE v

RecordAliases == AliasesFor("order")

\* extract_order_value over the alias fields of a document
RECURSIVE ExtractFrom(_, _)
ExtractFrom(document, keys) ==
    IF keys = <<>> THEN DEFAULT_ORDER_VALUE
    ELSE IF document[Head(keys)] \notin {Missing, None} /\ IsInt(document[Head(keys)])
    THEN IntOf(document[Head(keys)])
    ELSE ExtractFrom(document, Tail(keys))
RecordOrderValue(document) ==
    IF ~document.present THEN DEFAULT_ORDER_VALUE ELSE ExtractFrom(document, RecordAliases)

\* build_order_field_map(order_value) written into a document with $set
SetOrderFields(document, order_value) ==
    [document EXCEPT !.order = order_value, !.serial = order_value]

NoRecord ==
    [present |-> FALSE, order |-> Missing, serial |-> Missing, hostname |-> "",
     last_seen |-> Missing, created_at |-> Missing, last_online_minute |-> Missing]

\* an upsert that writes the default order with $set on every call
Upsert_SetsOrderAlways(document, hostname, now) ==
    SetOrderFields([document EXCEPT !.present = TRUE, !.hostname = hostname,
                                    !.last_seen = now,
                                    !.created_at = IF document.present THEN @ ELSE now],
                   DEFAULT_ORDER_VALUE)

\* find_one_and_update({"machine_id": ...}, {"$set": {hostname, last_seen},
\* "$setOnInsert": {machine_id, created_at, order fields}}, upsert=True)
Upsert(document, hostname, now) ==
    IF document.present
    THEN [document EXCEPT !.hostname = hostname, !.last_seen = now]
    ELSE SetOrderFields([NoRecord EXCEPT !.present = TRUE, !.hostname = hostname,
                                         !.last_seen = now, !.created_at = now],
                        DEFAULT_ORDER_VALUE)

\* the second half of ensure_machine_record: the alias fields that differ from
\* the extracted order value are set to it
NormaliseOrderFields(document) ==
    LET order_value == RecordOrderValue(document)
    IN [key \in DOMAIN document |->
          IF (\E n \in DOMAIN RecordAliases : RecordAliases[n] = key)
             /\ document[key] # order_value
          THEN order_value ELSE document[key]]

\* the documents the store may hold for the machine before the first call
RecordChoices ==
    {NoRecord} \cup
    { [present |-> TRUE, order |-> o, serial |-> s, hostname |-> "old",
       last_seen |-> 0, created_at |-> 0, last_online_minute |-> l] :
        o \in {Missing, None, NotANumber, 1, DigitsOf(5), DEFAULT_ORDER_VALUE},
        s \in {Missing, None, 7},
        l \in {Missing, None, 60} }

RecordInit ==
    /\ machines = <<>> /\ jobs = <<>> /\ job_runs = <<>>
    /\ agent = <<>> /\ jobs_cache = <<>> /\ started = <<>>
    /\ abandoned = {} /\ faults = {}
    /\ http = <<>> /\ chain = <<>> /\ index = <<>> /\ tmpl = <<>>
    /\ watcher = <<>> /\ loop = <<>> /\ merged = <<>> /\ threads = <<>> /\ clock = <<>>
    /\ \E document \in RecordChoices :
          record = [doc |-> document, first |-> document, calls |-> 0,
                    hostname |-> "", now |-> 0, returned |-> NoRecord]

\* ensure_machine_record(db, machine_id, hostname) at a later time
EnsureRecord ==
    /\ record.calls < MaxCalls
    /\ \E hostname \in {"old", "new"} :
          LET now == record.now + 1
              doc == NormaliseOrderFields(Upsert(record.doc, hostname, now))
          IN record' = [record EXCEPT !.doc = doc, !.returned = doc, !.calls = @ + 1,
                                      !.hostname = hostname, !.now = now]
    /\ UNCHANGED <<fleet, http, chain, index, tmpl, watcher, loop, merged, threads, clock>>

RecordSpec == RecordInit /\ [][EnsureRecord]_vars


\* ======================================================== the properties
RunsFor(job_id, minute_utc) ==
    {i \in DOMAIN job_runs : job_runs[i].job_id = job_id
                             /\ job_runs[i].scheduled_for = minute_utc}

\* the agent holds the machine list it read in this call of process_minute
HasRead(m) == agent[m].machines # <<>>

\* some machine before the agent's position in its list reported in its minute
SeesEarlierOnline(m) ==
    \E idx \in 1..(agent[m].my_position - 1) :
        /\ idx \in DOMAIN agent[m].machines
        /\ agent[m].machines[idx].last_online_minute = Sched(m)

\* the agent's own entry in the list it read shows its heartbeat for the minute
SeesOwnHeartbeat(m) ==
    \E idx \in DOMAIN agent[m].machines :
        /\ agent[m].machines[idx].machine_id = m
        /\ agent[m].machines[idx].last_online_minute = Sched(m)

\* ---- C1
\* C1: job_runs holds at most one document per (job_id, scheduled_for), and a
\* claimed_by that names a machine never later names a different machine.
C1_OneDocumentOneOwner ==
    /\ [](\A k \in RunKeys : Cardinality(RunsFor(k[1], k[2])) <= 1)
    /\ [][\A i \in DOMAIN job_runs :
            job_runs[i].claimed_by # None =>
               /\ i \in DOMAIN job_runs'
               /\ job_runs'[i].job_id = job_runs[i].job_id
               /\ job_runs'[i].scheduled_for = job_runs[i].scheduled_for
               /\ job_runs'[i].claimed_by = job_runs[i].claimed_by]_vars

\* a run is claimed by one machine and another machine has tried to claim it
C1_Witness ==
    \E i \in DOMAIN job_runs, m \in Agents :
        /\ job_runs[i].claimed_by \notin {None, m}
        /\ job_runs[i].scheduled_for = Sched(m)
        /\ job_runs[i].job_id \in agent[m].attempted

\* ---- C2
\* C2: for every job and scheduled minute the action chain is started at most
\* once across the fleet, repeated starts on one machine included.
C2_StartedAtMostOnce == \A k \in RunKeys : Len(started[k]) <= 1


\* ---- C3
\* a machine document carries the heartbeat of minute t
Heartbeated(t) ==
    \E i \in MachineIds : /\ machines[i].present
                          /\ machines[i].last_online_minute = to_utc_minute(t)

\* no agent is inside a tick: each is between ticks, down, or was killed
AtRest == \A m \in Agents : agent[m].pc \in {"idle", "crashed"}

\* the job document is enabled and one of its schedule entries names minute t
IsDue(doc, t) ==
    LET names(hour, minute) ==
            /\ hour \in {None, HourOf(t)}
            /\ (IF minute = None THEN 0 ELSE minute) = MinuteOf(t)
    IN /\ doc.enabled
       /\ IF doc.schedules # <<>>
          THEN \E n \in DOMAIN doc.schedules :
                   names(doc.schedules[n].hour, doc.schedules[n].minute)
          ELSE names(doc.hour, doc.minute)

ExactlyOneClaimedRun(j, t) ==
    /\ Cardinality(RunsFor(j, to_utc_minute(t))) = 1
    /\ \A i \in RunsFor(j, to_utc_minute(t)) : job_runs[i].claimed_by \in MachineIds

ClaimReturns(m) ==
    /\ agent[m].pc \in {"claim", "claim_insert"}
    /\ agent'[m].pc \notin {"claim", "claim_insert", "crashed"}
\* ... with True: the agent goes on to run the job
ClaimReturnsTrue(m) == agent'[m].pc = "run_step"
\* after the call the run's row is claimed by m
OwnsRowAfter(m) ==
    \E i \in DOMAIN job_runs' :
        /\ job_runs'[i].job_id = CurrentJob(m)
        /\ job_runs'[i].scheduled_for = Sched(m)
        /\ job_runs'[i].claimed_by = m
\* before the call the run's row is claimed by another machine
OtherOwnsRowBefore(m) ==
    \E i \in RunsFor(CurrentJob(m), Sched(m)) : job_runs[i].claimed_by \notin {None, m}

AttemptedAllDue(m) ==
    \A j \in JobIds :
        (IsDue(jobs_cache[m][j], agent[m].tick) /\ jobs[j].enabled) => j \in agent[m].attempted

C6_StandDown ==
    \A m \in Agents :
        (agent[m].check_marker = 1 /\ HasRead(m) /\ SeesEarlierOnline(m))
        => /\ agent[m].pc = "returned"
           /\ agent[m].branch \in {"stand_down", "over_limit"}
           /\ agent[m].attempted = {}
           /\ \A i \in DOMAIN job_runs :
                ~(job_runs[i].claimed_by = m /\ job_runs[i].scheduled_for = Sched(m))
           /\ \A k \in RunKeys : k[2] = Sched(m) => m \notin Range(started[k])

C6_Witness ==
    \E m \in Agents :
        /\ agent[m].check_marker = 1 /\ HasRead(m) /\ SeesEarlierOnline(m)
        /\ agent[m].branch = "stand_down"
        /\ job_runs # <<>>

\* ---- C7
\* C7: a machine that has won a claim for M saw, in the machine list it last
\* read, its own heartbeat for M and no earlier machine online for M.
C7_WinnerWasLowestAlive ==
    \A m \in Agents :
        agent[m].pc = "run_step" => (SeesOwnHeartbeat(m) /\ ~SeesEarlierOnline(m))

\* ---- C8
\* C8: when Phase A has read the machine list, this machine's document in the
\* store carries last_online_minute = M.
C8_HeartbeatEffect ==
    \A m \in Agents :
        (agent[m].check_marker = 0 /\ HasRead(m)) => SeesOwnHeartbeat(m)


\* ---- C9
RECURSIVE SumLen(_)
SumLen(ss) == IF ss = <<>> THEN 0 ELSE Len(Head(ss)) + SumLen(Tail(ss))
\* the HTTP requests the call has sent so far
RequestsSent == SumLen(http.responses)

\* C9: whatever the step, its retries value and its transport, a call of the
\* step runner sends no more than retries + 1 HTTP requests.
C9_RetryBound ==
    http.pc # "none" => RequestsSent <= http.step.retries + 1

\* ---- C10
\* the response attempt i ended with (NoStatus if it got none)
AttemptResponse(i) ==
    IF http.responses[i] = <<>> THEN NoStatus
    ELSE http.responses[i][Len(http.responses[i])]
Is2xx(status) == 200 <= status /\ status < 300
\* attempt i is over: a later one has begun, or the loop body has run to its end
AttemptOver(i) ==
    i < Len(http.responses) \/ (i = Len(http.responses) /\ http.pc \in {"loop", "done"})

\* C10: the call returns ok at the first attempt whose response has a 2xx
\* status and makes no later attempt; it returns error only after all
\* retries + 1 attempts failed, with the last attempt's info; the attempts it
\* reports are the attempts it made.
C10_StepOutcome ==
    /\ \A i \in DOMAIN http.responses :
          (AttemptOver(i) /\ Is2xx(AttemptResponse(i)))
          => (http.st = "ok" /\ i = Len(http.responses))
    /\ http.st = "ok" =>
          /\ Is2xx(http.info.status_code)
          /\ http.info.status_code = AttemptResponse(Len(http.responses))
          /\ http.info.attempts = Len(http.responses)
    /\ http.st = "error" =>
          /\ Len(http.responses) = http.step.retries + 1
          /\ \A i \in DOMAIN http.responses : ~Is2xx(AttemptResponse(i))
          /\ http.info.attempts = Len(http.responses)
          /\ http.info.status_code \in {None, AttemptResponse(Len(http.responses))}


\* ---- C11
RECURSIVE Power(_, _)
Power(b, n) == IF n = 0 THEN 1 ELSE b * Power(b, n - 1)

\* C11: the sleep between attempt k and attempt k + 1 is
\* delay_sec * backoff^(k-1) when backoff > 1 and delay_sec otherwise, there is
\* one sleep after every attempt but the last, and none after the last.
C11_BackoffSchedule ==
    http.pc # "none" =>
       /\ \A k \in DOMAIN http.slept :
             http.slept[k] = IF http.step.backoff > 1
                             THEN http.step.delay_sec * Power(http.step.backoff, k - 1)
                             ELSE http.step.delay_sec
       /\ Len(http.slept) = IF http.pc = "loop" THEN http.attempts ELSE http.attempts - 1

\* retries = 2, delay_sec = 1, backoff = 2 against 503, 503, 200
C11_Witness ==
    /\ http.pc = "done" /\ http.st = "ok"
    /\ http.attempts = 3
    /\ http.slept = <<1, 2>>


\* ---- C12
IsPrefix(s, t) == Len(s) <= Len(t) /\ \A i \in DOMAIN s : s[i] = t[i]
\* log entry n records a failed step that does not have continue_on_failure
FailedHard(n) ==
    /\ chain.steps_log[n].status = "error"
    /\ ~chain.actions[chain.steps_log[n].index + 1].continue_on_failure

\* C12: after a step that failed without continue_on_failure no later step is
\* attempted or logged and the overall status is error; the log holds one
\* entry per earlier step, in action order, and no entry is ever changed.
C12_ChainAbort ==
    /\ [](chain # <<>> =>
            /\ \A n \in DOMAIN chain.steps_log :
                  /\ chain.steps_log[n].index = n - 1
                  /\ FailedHard(n) =>
                        /\ n = Len(chain.steps_log)
                        /\ \A k \in DOMAIN chain.called : chain.called[k] <= n - 1
                        /\ chain.status_overall = "error"
                        /\ chain.pc \in {"return", "done"}
                        /\ chain.pc = "done" => chain.returned = "error"
            /\ \A k \in DOMAIN chain.steps : \A l \in DOMAIN chain.steps :
                  k < l => chain.steps[k].index < chain.steps[l].index)
    /\ [][chain # <<>> => /\ IsPrefix(chain.steps_log, chain'.steps_log)
                          /\ IsPrefix(chain.steps, chain'.steps)]_vars

\* S5: three steps, the second fails without continue_on_failure
C12_Witness ==
    /\ chain # <<>>
    /\ chain.pc = "done" /\ chain.returned = "error"
    /\ Len(chain.actions) = 3
    /\ Len(chain.steps) = 2
    /\ chain.steps[1].status = "ok" /\ chain.steps[2].status = "error"

\* ---- C13
\* C13: execute_actions returns ok if and only if no executed step had
\* outcome error.
C13_OverallStatus ==
    (chain # <<>> /\ chain.pc = "done") =>
        (chain.returned = "ok" <=>
            ~ \E n \in DOMAIN chain.steps_log : chain.steps_log[n].status = "error")


\* ---- C14
\* C14: once end_at is set on a job_runs document, no step of any agent
\* changes its status, steps or end_at.
C14_Terminal ==
    [][\A i \in DOMAIN job_runs :
          job_runs[i].end_at =>
             /\ i \in DOMAIN job_runs'
             /\ job_runs'[i].status = job_runs[i].status
             /\ job_runs'[i].steps = job_runs[i].steps
             /\ job_runs'[i].end_at = job_runs[i].end_at]_vars

\* ---- C15
\* C15: every new value of a run's persisted steps has the previous value as
\* a prefix.
C15_StepsAppendOnly ==
    [][\A i \in DOMAIN job_runs :
          /\ i \in DOMAIN job_runs'
          /\ Len(job_runs[i].steps) <= Len(job_runs'[i].steps)
          /\ \A n \in DOMAIN job_runs[i].steps :
                job_runs'[i].steps[n] = job_runs[i].steps[n]]_vars


\* ---- C16
\* the schedule entries of a job document as (hour, minute) pairs, an absent
\* minute read as 0
EntriesOf(doc) ==
    IF doc.schedules # <<>>
    THEN {<<doc.schedules[n].hour,
            IF doc.schedules[n].minute = None THEN 0 ELSE doc.schedules[n].minute>> :
          n \in DOMAIN doc.schedules}
    ELSE {<<doc.hour, IF doc.minute = None THEN 0 ELSE doc.minute>>}

\* C16: after reload, list_for(h, m) yields exactly the enabled jobs with an
\* entry of minute m and hour h or null; a null-hour entry is filed under all
\* 24 hours at its minute, and a job without schedules, hour and minute under
\* (h, 0) for every h.
C16_IndexComplete ==
    /\ (index # <<>> /\ index.has_listed) =>
          Range(index.listed) =
             {j \in JobIds : /\ index.jobs[j].enabled
                             /\ \E e \in EntriesOf(index.jobs[j]) :
                                   /\ e[1] \in {None, index.from_time.hour}
                                   /\ e[2] = index.from_time.minute}
    /\ (index # <<>> /\ index.pc = "loaded") =>
          \A j \in JobIds : index.jobs[j].enabled =>
             /\ \A e \in EntriesOf(index.jobs[j]) : e[1] = None =>
                   \A h \in 0..23 : /\ <<h, e[2]>> \in DOMAIN index.map
                                    /\ j \in Range(index.map[<<h, e[2]>>])
             /\ ( /\ index.jobs[j].schedules = <<>>
                  /\ index.jobs[j].hour = None /\ index.jobs[j].minute = None )
                => \A h \in 0..23 : /\ <<h, 0>> \in DOMAIN index.map
                                    /\ j \in Range(index.map[<<h, 0>>])

\* at 23:15 the bucket holds the hourly minute-15 job and not the 23:59 job
C16_Witness ==
    /\ index # <<>> /\ index.has_listed
    /\ index.from_time.hour = 23 /\ index.from_time.minute = 15
    /\ index.jobs[1] = SchedulesJob(<< [hour |-> None, minute |-> 15] >>)
    /\ index.jobs[2] = FlatJob(23, 59)
    /\ index.listed = <<1>>

\* ---- C17
\* seconds since the start of day 0
Stamp(t) == ((t.day * 24 + t.hour) * 60 + t.minute) * 60 + t.second
\* the first occurrence of each index key after from_time's (hour, minute)
Occurrences ==
    {[day |-> IF \/ k[1] > index.from_time.hour
                 \/ (k[1] = index.from_time.hour /\ k[2] > index.from_time.minute)
              THEN index.from_time.day ELSE index.from_time.day + 1,
      hour |-> k[1], minute |-> k[2], second |-> 0] : k \in DOMAIN index.map}

\* C17: for a non-empty index get_next_schedule(t) is strictly later than t,
\* has second zero and is the earliest occurrence of an index key after t's
\* (hour, minute), on the next day when none remains today.
C17_NextFire ==
    (index # <<>> /\ index.has_next /\ DOMAIN index.map # {}) =>
        /\ index.next # NoTime
        /\ Stamp(index.next) > Stamp(index.from_time)
        /\ index.next.second = 0
        /\ index.next \in Occurrences
        /\ \A o \in Occurrences : Stamp(index.next) <= Stamp(o)

\* S6: an hourly minute-15 schedule asked at 08:16 answers 09:15
C17_Witness ==
    /\ index # <<>> /\ index.has_next
    /\ index.jobs[1] = SchedulesJob(<< [hour |-> None, minute |-> 15] >>)
    /\ ~index.jobs[2].enabled
    /\ index.from_time.hour = 8 /\ index.from_time.minute = 16
    /\ index.next = [day |-> 0, hour |-> 9, minute |-> 15, second |-> 0]

\* ---- C18
\* C18: get_next_schedule returns null if and only if the index map is empty.
C18_NullIffEmpty ==
    (index # <<>> /\ index.has_next) => (index.next = NoTime <=> DOMAIN index.map = {})

\* both jobs disabled: the map is empty and the answer is null
C18_Witness ==
    /\ index # <<>> /\ index.has_next
    /\ \A j \in JobIds : ~index.jobs[j].enabled
    /\ index.next = NoTime


\* ---- C19
\* C19: resolve_templates(resolve_templates(v)) = resolve_templates(v) for
\* every value and every secrets map.
C19_Idempotent ==
    (tmpl # <<>> /\ tmpl.pc = "twice") => tmpl.twice = tmpl.once

\* ---- C20
\* the placeholder of a secret that starts the text, if any: its item
StartsWith(text, items) ==
    {n \in DOMAIN items :
        /\ Len(text) >= Len(items[n].k) + 4
        /\ SubSeq(text, 1, Len(items[n].k) + 4)
              = <<"{", "{">> \o items[n].k \o <<"}", "}">>}
\* one pass over the text of the value itself: each placeholder of a known key
\* is replaced by the secret's string form and what was inserted is not read
\* again; everything else is copied
RECURSIVE ExpandOwnText(_, _)
ExpandOwnText(text, items) ==
    IF text = <<>> THEN <<>>
    ELSE IF StartsWith(text, items) # {}
    THEN LET n == CHOOSE x \in StartsWith(text, items) : TRUE
         IN str(items[n].v)
            \o ExpandOwnText(SubSeq(text, Len(items[n].k) + 5, Len(text)), items)
    ELSE <<Head(text)>> \o ExpandOwnText(Tail(text), items)
RECURSIVE ExpandOwnValue(_, _)
ExpandOwnValue(value, items) ==
    IF value.kind = "str" THEN [kind |-> "str", s |-> ExpandOwnText(value.s, items)]
    ELSE IF value.kind \in {"dict", "list"}
    THEN [value EXCEPT !.items =
            [i \in DOMAIN value.items |-> ExpandOwnValue(value.items[i], items)]]
    ELSE value

\* C20: resolve_templates expands the placeholders of the value itself and
\* never the text it inserted for a secret, whatever the order of the secrets
\* map; a placeholder of an absent key stays as it is.
C20_NoNestedTemplates ==
    (tmpl # <<>> /\ tmpl.pc # "new") => tmpl.once = ExpandOwnValue(tmpl.value, tmpl.secrets)


\* ---- C21
\* the created_at of the n-th command the watcher dispatched
DispatchedAt(n) == watcher.commands[watcher.dispatched[n]].created_at

\* C21: the watermark never decreases; no command is dispatched twice; the
\* commands dispatched are addressed to this machine or to "all" and are
\* dispatched in ascending created_at order; and once a poll is over, every
\* command its query returned that the watermark has reached or passed has
\* been dispatched.
C21_CommandDispatch ==
    /\ [][watcher'.last_seen >= watcher.last_seen]_vars
    /\ [](/\ \A n, k \in DOMAIN watcher.dispatched :
                n # k => watcher.dispatched[n] # watcher.dispatched[k]
          /\ \A n \in DOMAIN watcher.dispatched :
                watcher.commands[watcher.dispatched[n]].target \in {MyMachineId, "all"}
          /\ \A n, k \in DOMAIN watcher.dispatched :
                n < k => DispatchedAt(n) <= DispatchedAt(k)
          /\ watcher.pc = "wait" =>
                \A c \in watcher.found :
                    watcher.commands[c].created_at <= watcher.last_seen
                    => \E n \in DOMAIN watcher.dispatched : watcher.dispatched[n] = c)

\* ---- C22
\* C22: whatever fails while the watcher polls or handles a command, the
\* watcher thread does not end; it ends only by returning once the stop flag
\* is set.
C22_WatcherKeepsPolling ==
    /\ watcher.pc # "exited"
    /\ watcher.pc = "returned" => watcher.stop_ev


\* ---- C23
\* C23: no error raised by a store or HTTP operation in an iteration of the
\* main loop ends the main loop.
C23_MainLoopSurvives == loop.pc # "terminated"

\* ---- C24
\* C24: once the tick in which the machine won a run is over, the run is not
\* left in status running: it has status ok or error and end_at set.
C24_RunFinalised ==
    (loop.pc = "top" /\ loop.run.status # "none")
    => (loop.run.status \in {"ok", "error"} /\ loop.run.end_at)

\* ---- C27
\* C27: when the signal arrives while an HTTP attempt is in flight, the stop
\* flag is set and the attempt has run to completion when the agent exits.
C27_AttemptCompletesBeforeExit ==
    loop.pc = "exited" => (loop.stop_ev /\ loop.at_exit # "in_flight")


\* ---- C25
\* C25: the timeout an HTTP attempt is given is a number, never null, for a
\* step of a chain and for a flat job, with or without timeout_sec in the
\* step or job document.
C25_TimeoutSet ==
    (merged # <<>> /\ merged.pc = "run") => (merged.timeout # None /\ merged.timeout > 0)

\* ---- C26
\* the value of the first level, highest precedence first, that has one
FirstSpecified(values) ==
    IF \E n \in DOMAIN values : values[n] # Missing
    THEN values[CHOOSE n \in DOMAIN values :
                   /\ values[n] # Missing
                   /\ \A k \in DOMAIN values : k < n => values[k] = Missing]
    ELSE Missing
\* the step, job and global levels of a run; a flat job has no step level
LevelsOf(m) ==
    IF m.flat THEN <<m.job, m.http_defaults>>
    ELSE <<m.step, m.job, m.http_defaults>>

\* C26: each of timeout_sec, retries, delay_sec and backoff a step runs with
\* is the value of the highest level that specifies it, step over job over
\* http_defaults, for chain steps and flat jobs.
C26_Precedence ==
    (merged # <<>> /\ merged.pc = "run") =>
       LET levels == LevelsOf(merged)
           expect(used, values) ==
               FirstSpecified(values) # Missing => used = FirstSpecified(values)
       IN /\ expect(merged.timeout, [n \in DOMAIN levels |-> levels[n].timeout_sec])
          /\ expect(merged.retry.retries, [n \in DOMAIN levels |-> levels[n].retry.retries])
          /\ expect(merged.retry.delay_sec, [n \in DOMAIN levels |-> levels[n].retry.delay_sec])
          /\ expect(merged.retry.backoff, [n \in DOMAIN levels |-> levels[n].retry.backoff])



\* ---- C28
\* C28: whenever the main loop reads the order-field alias list while the
\* watcher applies reload_config, it reads the complete list of the old or of
\* the new settings, never an empty or partly built one.
C28_AliasesWhole ==
    threads # <<>> =>
       \E f \in OrderFields :
          threads.aliases_read = (IF f = "order" THEN <<"order", "serial">>
                                  ELSE <<f, "order", "serial">>)

\* ---- C29
\* C29: a list_for or get_next_schedule call that runs beside a reload returns
\* what one whole map gives, a map that was the index's map during the call,
\* and no step of a reload changes a list that list_for has returned.
C29_ReloadAtomic ==
    /\ [](threads # <<>> =>
            /\ (threads.mpc = "idle" /\ threads.last_call = "list_for")
               => \E m \in threads.seen :
                     threads.listed = (IF ThreadListKey \in DOMAIN m
                                       THEN m[ThreadListKey] ELSE <<>>)
            /\ (threads.mpc = "idle" /\ threads.last_call = "get_next_schedule")
               => \E m \in threads.seen :
                     IF DOMAIN m = {} THEN threads.next = NoTime
                     ELSE \E k \in DOMAIN m :
                             /\ threads.next.hour = k[1] /\ threads.next.minute = k[2]
                             /\ threads.next.second = 0
                             /\ LET later(x) == x[1] > ThreadQueryTime.hour
                                                \/ (x[1] = ThreadQueryTime.hour
                                                    /\ x[2] > ThreadQueryTime.minute)
                                    before(x, y) == x[1] < y[1] \/ (x[1] = y[1] /\ x[2] <= y[2])
                                IN IF \E x \in DOMAIN m : later(x)
                                   THEN /\ later(k)
                                        /\ threads.next.day = ThreadQueryTime.day
                                        /\ \A x \in DOMAIN m : later(x) => before(k, x)
                                   ELSE /\ threads.next.day = ThreadQueryTime.day + 1
                                        /\ \A x \in DOMAIN m : before(k, x))
    /\ [][threads.mpc = threads'.mpc => threads'.listed = threads.listed]_vars

\* get_next_schedule has returned tomorrow's first key of the map it held
\* while the watcher, with another map built, waited for the lock
C29_Witness ==
    /\ threads # <<>>
    /\ threads.mpc = "idle" /\ threads.last_call = "get_next_schedule"
    /\ threads.next.day = ThreadQueryTime.day + 1
    /\ threads.wpc = "acquire" /\ threads.mp # threads.map
    /\ DOMAIN threads.mp # {}


\* ---- C30
\* the calls of process_minute that claim a run or work on a claimed run
ClaimingOrExecuting == {"claim", "step", "in_flight", "retry_sleep", "push", "finalize"}

\* C30 as stated: whenever the position the agent computed for the minute, in
\* Phase A or on the recomputation of Phase B, exceeds max_active_machines, the
\* agent makes no claim and executes no job for that minute.
C30_PositionCap ==
    loop.my_position > loop.max_active => loop.pc \notin ClaimingOrExecuting

\* C30 amended: ... exceeds a max_active_machines that is greater than zero ...
\* The agent then returns from process_minute at once, in either phase, and
\* has no run of the minute in hand.
C30_PositionCapWhenPositive ==
    /\ (loop.max_active > 0 /\ loop.my_position > loop.max_active)
       => /\ loop.pc \notin ({"find_job"} \cup ClaimingOrExecuting)
          /\ loop.run = NoRun
          /\ loop.over_limit # "none"
    /\ loop.over_limit # "none" => loop.pc \in {"top", "terminated", "exited"}

\* the recomputation of Phase B put the agent over a positive limit
C30_Witness ==
    /\ loop.over_limit = "phase_b"
    /\ loop.max_active > 0 /\ loop.my_position > loop.max_active
    /\ loop.pc = "top"


\* ---- C31
\* C31: the re-fetch of Phase B comes no earlier than (p - 1) * 5 seconds after
\* Phase A for a machine at Phase A position p > 1, with or without the rich
\* console; a machine at position 1 goes on to Phase C at once, without Phase B.
C31_StaircaseDelay ==
    /\ clock.phase_b_at # None
       => clock.phase_b_at - clock.phase_a_at >= (clock.my_position - 1) * OFFSET_STEP_SEC
    /\ (clock.pc = "phase_c" /\ clock.my_position = 1)
       => (clock.phase_b_at = None /\ clock.now = clock.phase_a_at)

\* ---- C33
HalfHourSeconds == 30 * SecondsPerMinute

MinutesOfIndexToday ==
    { ClockSeconds([day |-> ClockTime(clock.now).day, hour |-> k[1], minute |-> k[2],
                    second |-> 0]) :
        k \in {l \in DOMAIN clock.map : l[1] \in 0..(HoursPerDay - 1)
                                        /\ l[2] \in 0..(MinutesPerHour - 1)} }

\* C36: when the loop has picked its next schedule, every scheduled minute
\* that began while the agent was running, and that the index held before it
\* began, has had its Phase A.
C36_NoMinuteMissed ==
    clock.pc \in {"no_jobs", "long_wait", "countdown"}
    => \A s \in MinutesOfIndexToday :
          (clock.started <= s /\ clock.loaded_at < s /\ s <= clock.now)
          => \E n \in DOMAIN clock.ticks : clock.ticks[n] = s

\* ---- C37
\* C37: the scheduled minutes of an agent's successive calls of Phase A are
\* strictly increasing.
C37_TicksIncrease ==
    \A i, j \in DOMAIN clock.ticks : i < j => clock.ticks[i] < clock.ticks[j]

\* a second tick that took no time at all, and the loop has picked a later
\* minute after it
C37_Witness ==
    /\ Len(clock.ticks) >= 2
    /\ clock.pc \in {"countdown", "long_wait"}
    /\ clock.now = clock.ticks[Len(clock.ticks)]
    /\ clock.next > clock.now


\* ---- C34
\* every predicate the mapping holds contains its component of the local time
WhenSatisfied(when, now_local) ==
    /\ when.has_hour_in => HourOf(now_local) \in when.hour_in
    /\ when.has_minute_in => MinuteOf(now_local) \in when.minute_in

\* the entry of steps_log for the step with index i, if the chain logged one
LoggedAs(i, status) ==
    \E n \in DOMAIN chain.steps_log :
        chain.steps_log[n].index = i /\ chain.steps_log[n].status = status

\* C34 as stated: a request is made only for a step whose when is satisfied,
\* and when execute_actions has returned, every step whose when is not
\* satisfied is logged skipped_when.
C34_WhenMatch ==
    /\ \A n \in DOMAIN chain.called :
          WhenSatisfied(chain.actions[chain.called[n] + 1].when, chain.now_local)
    /\ chain.pc = "done"
       => \A i \in 0..(Len(chain.actions) - 1) :
             ~WhenSatisfied(chain.actions[i + 1].when, chain.now_local)
             => LoggedAs(i, "skipped_when")

\* C34 amended: ... An http step that the chain reaches is requested if its
\* when is satisfied and is otherwise logged skipped_when without a request;
\* a step of another type is logged skipped_unsupported whatever its when.
C34_WhenMatchOfHttpSteps ==
    /\ \A n \in DOMAIN chain.called :
          WhenSatisfied(chain.actions[chain.called[n] + 1].when, chain.now_local)
    /\ \A i \in 0..(chain.idx - 1) :
          LET step == chain.actions[i + 1]
              requested == \E n \in DOMAIN chain.called : chain.called[n] = i
          IN IF step.type # "http"
             THEN LoggedAs(i, "skipped_unsupported") /\ ~requested
             ELSE IF WhenSatisfied(step.when, chain.now_local)
             THEN requested /\ ~LoggedAs(i, "skipped_when")
             ELSE LoggedAs(i, "skipped_when") /\ ~requested

\* an http step with hour_in = [] at 10:00 was skipped, and one whose hour_in
\* and minute_in both hold the time was requested
C34_Witness ==
    /\ chain.pc = "done"
    /\ \/ /\ chain.actions[1] = [type |-> "http", when |-> WhenHourIn({}),
                                 continue_on_failure |-> FALSE]
          /\ chain.now_local = 600 /\ LoggedAs(0, "skipped_when")
          /\ chain.called = <<1>>


\* ---- C35
\* the sort key of the machine's document against a machine with order 5
SortsBeforePeer(document) ==
    SortsBefore([order |-> RecordOrderValue(document), machine_id |-> 1],
                [order |-> 5, machine_id |-> 2])

\* C35: ensure_machine_record gives the order value 9999 only to a document it
\* inserts; for a machine that has a document it refreshes hostname and
\* last_seen and leaves the order value and last_online_minute as they were,
\* so no number of calls changes the place of the machine in the fleet.
C35_EnsureKeepsOrder ==
    record.calls > 0
    => /\ record.doc.present
       /\ record.doc.hostname = record.hostname /\ record.doc.last_seen = record.now
       /\ IF record.first.present
          THEN /\ RecordOrderValue(record.doc) = RecordOrderValue(record.first)
               /\ record.doc.last_online_minute = record.first.last_online_minute
               /\ record.doc.created_at = record.first.created_at
               /\ SortsBeforePeer(record.doc) = SortsBeforePeer(record.first)
          ELSE /\ RecordOrderValue(record.doc) = DEFAULT_ORDER_VALUE
               /\ record.doc.order = DEFAULT_ORDER_VALUE

\* two calls for a machine whose document held its order under "serial" only
C35_Witness ==
    /\ record.calls = MaxCalls
    /\ record.first.present /\ record.first.order = None /\ record.first.serial = 7
    /\ record.doc.order = 7 /\ record.doc.hostname = "new"


\* ---- C32
\* the agent is in Phase C, at some entry of the bucket
InPhaseC(m) == agent[m].pc \in {"find_job", "claim", "claim_insert", "run_step", "finalize"}

\* the agent holds a run of job j for its minute that it has not finalised
HoldsOpenRun(m, j) ==
    \E i \in RunsFor(j, Sched(m)) :
        job_runs[i].claimed_by = m /\ job_runs[i].status = "running"

\* C32: an agent goes through the bucket of its minute entry by entry, in the
\* order of the bucket. While it is at entry k it has attempted claims for
\* jobs of entries 1..k only and holds no unfinished run of a job of an
\* earlier entry; and when it has gone through the bucket, it has attempted
\* every job that is still enabled, whatever claims it lost on the way.
C32_OneAfterAnother ==
    \A m \in Agents :
        /\ InPhaseC(m)
           => /\ agent[m].job_i \in DOMAIN agent[m].jobs
              /\ agent[m].attempted \subseteq {agent[m].jobs[i] : i \in 1..agent[m].job_i}
              /\ \A i \in 1..(agent[m].job_i - 1) :
                    agent[m].jobs[i] # CurrentJob(m) => ~HoldsOpenRun(m, agent[m].jobs[i])
        /\ (agent[m].pc = "returned" /\ agent[m].branch = "execute")
           => \A i \in DOMAIN agent[m].jobs :
                 jobs[agent[m].jobs[i]].enabled => agent[m].jobs[i] \in agent[m].attempted

\* an agent that lost the claim of the first job of the bucket, or finalised
\* its run, is claiming a different job at the second entry
C32_Witness ==
    \E m \in Agents :
        /\ agent[m].pc = "claim" /\ agent[m].job_i = 2
        /\ agent[m].jobs[1] # agent[m].jobs[2]
        /\ agent[m].jobs[1] \in agent[m].attempted


\* ---- C38
\* C38: when the turn of a job comes in Phase C and the store holds it
\* disabled, the agent's step for it changes no job_runs document, starts no
\* chain and records no claim attempt, and goes on to the next entry of the
\* bucket or returns, although the agent's index still holds the job.
C38_DisabledJobSkipped ==
    [][\A m \in Agents :
          ( /\ agent[m].pc = "find_job"
            /\ ~jobs[CurrentJob(m)].enabled
            /\ agent'[m] # agent[m] )
          => /\ job_runs' = job_runs /\ started' = started
             /\ agent'[m].attempted = agent[m].attempted
             /\ \/ agent'[m].pc = "crashed"
                \/ agent'[m].pc = "returned" /\ agent[m].job_i = Len(agent[m].jobs)
                \/ agent'[m].pc = "find_job" /\ agent'[m].job_i = agent[m].job_i + 1]_vars

\* an agent has passed a job of its bucket that the store holds disabled: no
\* claim attempt and no run document of the minute for it
C38_Witness ==
    \E m \in Agents :
        /\ InPhaseC(m) /\ agent[m].job_i = 2
        /\ ~jobs[agent[m].jobs[1]].enabled
        /\ jobs_cache[m][agent[m].jobs[1]].enabled
        /\ agent[m].jobs[1] \notin agent[m].attempted
        /\ RunsFor(agent[m].jobs[1], Sched(m)) = {}


\* ---- C39
\* C39: an agent that attempts a claim for minute M, or that has stood down or
\* given up M over the limit, has written its heartbeat for M before: its
\* document in the store carries last_online_minute = M.
C39_HeartbeatBeforeClaim ==
    \A m \in Agents :
        ( \/ agent[m].pc \in {"claim", "claim_insert", "run_step", "finalize"}
          \/ agent[m].pc = "returned" /\ agent[m].branch \in {"stand_down", "over_limit"} )
        => /\ machines[m].present
           /\ machines[m].last_online_minute = Sched(m)


\* ---- C40
\* C40: the lock of the JobsCache is held by the watcher only for the
\* assignment of the map and by the main thread only inside list_for and
\* get_next_schedule, never while db.jobs is queried; whoever holds it can
\* take its next step and release it, so a thread that waits for the lock is
\* never kept waiting by a store call or by the other thread waiting in turn.
C40_LockOnlyForMemory ==
    /\ threads.wpc = "query" => threads.lock # "watcher"
    /\ threads.lock = "watcher" <=> threads.wpc = "swap"
    /\ threads.lock = "main"
       <=> threads.mpc \in {"list_for", "check_empty", "today", "tomorrow"}
    /\ threads.lock = "watcher" => ENABLED ReloadSwap
    /\ threads.lock = "main"
       => ENABLED (ListForReturn \/ NextScheduleCheckEmpty \/ NextScheduleToday
                   \/ NextScheduleTomorrow)

\* the watcher has queried the store and waits for the lock while the main
\* thread is inside get_next_schedule
C40_Witness ==
    /\ threads.wpc = "acquire" /\ threads.mp # threads.map
    /\ threads.lock = "main" /\ threads.mpc = "today"

====
